---- MODULE Spec2Model ----
(***************************************************************************)
(* A model of the lawn-care database application.                          *)
(*                                                                         *)
(* Two revisions of the data layer live in the repository:                 *)
(*   - the class revision: database.Database (src/database.py), whose      *)
(*     methods take dataclass models and return booleans;                  *)
(*   - the query revision: the statement catalog (src/scripts.py) and the  *)
(*     typed query functions (src/query.py), which run through the         *)
(*     execution shim database.execute and return a Result envelope.       *)
(* A process runs one of them: the other one's state is Closed.            *)
(*                                                                         *)
(* Text is a sequence of one-character strings, so that LIKE, the column   *)
(* affinities of SQLite and the ISO formats of dates can be computed.      *)
(* Money is counted in whole dollars: every amount of the model is one     *)
(* that a float holds exactly.                                             *)
(***************************************************************************)
EXTENDS Integers, Sequences, FiniteSets, TLC

(***************************************************************************)
(* Bounds of the model.                                                    *)
(***************************************************************************)
\* The largest row id a table hands out: inserts stop there.
MaxId == 3
\* The largest number of calls of a run that change the database.
MaxWrites == 2

\* Python's None and SQL's NULL.
None == "None"
\* The state of the revision that the process does not run.
Closed == [closed |-> TRUE]

(***************************************************************************)
(* Text                                                                    *)
(***************************************************************************)
Digits == <<"0", "1", "2", "3", "4", "5", "6", "7", "8", "9">>

UpperCase == <<"A", "B", "C", "D", "E", "F", "G", "H", "I", "J", "K", "L", "M",
               "N", "O", "P", "Q", "R", "S", "T", "U", "V", "W", "X", "Y", "Z">>

LowerCase == <<"a", "b", "c", "d", "e", "f", "g", "h", "i", "j", "k", "l", "m",
               "n", "o", "p", "q", "r", "s", "t", "u", "v", "w", "x", "y", "z">>

\* SQLite's LIKE folds the ASCII letters.
Lower(c) ==
    IF \E i \in 1..26 : UpperCase[i] = c
    THEN LowerCase[CHOOSE i \in 1..26 : UpperCase[i] = c]
    ELSE c

RECURSIVE LikeFrom(_, _, _, _)
\* Whether text[i..] matches pattern[j..]: % is any run, _ any one character.
LikeFrom(text, i, pattern, j) ==
    IF j > Len(pattern) THEN i > Len(text)
    ELSE IF pattern[j] = "%"
         THEN \E k \in i..(Len(text) + 1) : LikeFrom(text, k, pattern, j + 1)
    ELSE IF i > Len(text) THEN FALSE
    ELSE /\ pattern[j] = "_" \/ Lower(pattern[j]) = Lower(text[i])
         /\ LikeFrom(text, i + 1, pattern, j + 1)

\* text LIKE pattern
Like(text, pattern) == LikeFrom(text, 1, pattern, 1)

\* f"%{query}%"
Wrap(query) == <<"%">> \o query \o <<"%">>

RECURSIVE IntText(_)
\* The text of a natural number, as SQLite converts it for LIKE.
IntText(n) == IF n < 10 THEN <<Digits[n + 1]>>
              ELSE IntText(n \div 10) \o <<Digits[(n % 10) + 1]>>

\* A well-formed integer literal (the model's texts carry no sign or point).
IsIntegerText(t) == Len(t) > 0 /\ \A i \in 1..Len(t) : \E d \in 1..10 : Digits[d] = t[i]

RECURSIVE Canonical(_)
\* The text of the integer that an integer literal denotes: leading zeros go.
Canonical(t) == IF Len(t) > 1 /\ t[1] = "0" THEN Canonical(Tail(t)) ELSE t

(***************************************************************************)
(* Python values that cross the data layer                                 *)
(***************************************************************************)
\* auth.hash_plaintext: SHA-256 as an injective text that is never a plaintext.
hash_plaintext(plaintext) == <<"#">> \o plaintext

\* datetime.date(2024, 1, d) for a day d of 1..9
Date(d) == [date |-> d]

\* date.isoformat(), also what sqlite3 binds for a date parameter
isoformat(d) == <<"2", "0", "2", "4", "-", "0", "1", "-", "0", Digits[d.date + 1]>>

\* Whether pydantic parses the text as a date: YYYY-MM-DD of January 2024.
IsIsoDate(t) ==
    /\ Len(t) = 10
    /\ SubSeq(t, 1, 9) = <<"2", "0", "2", "4", "-", "0", "1", "-", "0">>
    /\ \E d \in 1..9 : Digits[d + 1] = t[10]

\* date.fromisoformat, on a text that IsIsoDate
ParseDate(t) == Date(CHOOSE d \in 1..9 : Digits[d + 1] = t[10])

\* Whether pydantic's EmailStr accepts the text: a local part, one @, and a
\* domain with a dot inside.
IsEmail(t) ==
    \E i \in 2..(Len(t) - 3) :
        /\ t[i] = "@"
        /\ \A j \in 1..Len(t) : t[j] = "@" => j = i
        /\ \E k \in (i + 2)..(Len(t) - 1) : t[k] = "."
        /\ t[i + 1] # "." /\ t[Len(t)] # "."

(***************************************************************************)
(* SQLite values                                                           *)
(*                                                                         *)
(* Integer and text columns hold TLA+ integers and texts. Only             *)
(* BookingService.service_id mixes storage classes: the column is declared *)
(* INTEGER, the ids bound to it are texts. Its values are records          *)
(* [cls, txt] with cls the storage class and txt the value's text.         *)
(***************************************************************************)
\* INTEGER affinity applied to a text: an integer literal is stored as the integer.
IntegerAffinity(t) ==
    IF IsIntegerText(t) THEN [cls |-> "integer", txt |-> Canonical(t)]
    ELSE [cls |-> "text", txt |-> t]

\* Service.id = BookingService.service_id: a TEXT column against an INTEGER column
\* compares numerically when the text is a number.
ServiceIdMatches(id, service_id) ==
    IF service_id.cls = "integer"
    THEN IsIntegerText(id) /\ Canonical(id) = service_id.txt
    ELSE id = service_id.txt

\* The parent lookup of a foreign key converts the child's value with the parent
\* column's TEXT affinity and compares texts.
ServiceIdRefers(service_id, id) == id = service_id.txt

(***************************************************************************)
(* The tables of the query revision (scripts.CREATE_TABLES). A table is a  *)
(* function from rowid to row; an INTEGER PRIMARY KEY is the rowid.        *)
(***************************************************************************)
Tables == {"Person", "Property", "Booking", "Service", "BookingService", "Payment", "Roster"}

Max(S) == CHOOSE x \in S : \A y \in S : y <= x

RECURSIVE Ascending(_)
\* The elements of a finite set of integers in ascending order.
Ascending(S) ==
    IF S = {} THEN <<>>
    ELSE LET m == CHOOSE x \in S : \A y \in S : x <= y
         IN <<m>> \o Ascending(S \ {m})

\* A full scan: SELECT * FROM table visits the rows in rowid order.
Scan(table) == [i \in 1..Cardinality(DOMAIN table) |-> table[Ascending(DOMAIN table)[i]]]

\* LIMIT :limit OFFSET :offset (a negative limit is no limit)
LimitOffset(rows, limit, offset) ==
    LET from == (IF offset < 0 THEN 0 ELSE offset) + 1
        to   == IF limit < 0 \/ from + limit - 1 > Len(rows) THEN Len(rows)
                ELSE from + limit - 1
    IN SubSeq(rows, from, to)

RECURSIVE Sum(_)
\* SUM over a column given as a sequence of numbers, 0 for no rows (under COALESCE).
Sum(column) == IF column = <<>> THEN 0 ELSE Head(column) + Sum(Tail(column))

\* A table with one more row.
WithRow(table, rowid, row) ==
    [r \in DOMAIN table \cup {rowid} |-> IF r = rowid THEN row ELSE table[r]]

\* A table without the rows that satisfy gone.
Without(table, gone(_)) ==
    [r \in {x \in DOMAIN table : ~gone(table[x])} |-> table[r]]

\* The rowid of an INTEGER PRIMARY KEY AUTOINCREMENT insert: above every id the
\* table ever held (sqlite_sequence).
NextId(s, name) ==
    Max({s.seq[name]} \cup DOMAIN s[name]) + 1

\* The rowid of an insert into a table without AUTOINCREMENT.
NextRowid(table) == Max({0} \cup DOMAIN table) + 1

\* scripts.CREATE_ADMIN_USER
AdminUser ==
    [id |-> 1, first_name |-> <<"A", "d", "m", "i", "n">>, last_name |-> <<"U", "s", "e", "r">>,
     email |-> <<"a", "d", "m", "i", "n", "@", "e", "x", "a", "m", "p", "l", "e", ".", "c", "o", "m">>,
     phone_number |-> <<"1", "2", "3", "-", "4", "5", "6", "-", "7", "8", "9", "0">>,
     is_employee |-> 1,
     hashed_password |-> hash_plaintext(<<"a", "d", "m", "i", "n", "1", "2", "3">>),
     username |-> <<"a", "d", "m", "i", "n">>]

\* scripts.ADD_DEFAULT_SERVICES
DefaultServices ==
    <<[id |-> <<"l", "a", "w", "n", "_", "m", "o", "w", "i", "n", "g">>,
       description |-> <<"L", "a", "w", "n", " ", "M", "o", "w", "i", "n", "g">>, price |-> 50],
      [id |-> <<"h", "e", "d", "g", "e", "_", "t", "r", "i", "m", "m", "i", "n", "g">>,
       description |-> <<"H", "e", "d", "g", "e", " ", "T", "r", "i", "m", "m", "i", "n", "g">>, price |-> 30],
      [id |-> <<"l", "e", "a", "f", "_", "r", "e", "m", "o", "v", "a", "l">>,
       description |-> <<"L", "e", "a", "f", " ", "R", "e", "m", "o", "v", "a", "l">>, price |-> 40],
      [id |-> <<"s", "n", "o", "w", "_", "r", "e", "m", "o", "v", "a", "l">>,
       description |-> <<"S", "n", "o", "w", " ", "R", "e", "m", "o", "v", "a", "l">>, price |-> 60],
      [id |-> <<"g", "u", "t", "t", "e", "r", "_", "c", "l", "e", "a", "n", "i", "n", "g">>,
       description |-> <<"G", "u", "t", "t", "e", "r", " ", "C", "l", "e", "a", "n", "i", "n", "g">>, price |-> 70],
      [id |-> <<"p", "r", "e", "s", "s", "u", "r", "e", "_", "w", "a", "s", "h", "i", "n", "g">>,
       description |-> <<"P", "r", "e", "s", "s", "u", "r", "e", " ", "W", "a", "s", "h", "i", "n", "g">>, price |-> 80],
      [id |-> <<"t", "r", "e", "e", "_", "r", "e", "m", "o", "v", "a", "l">>,
       description |-> <<"T", "r", "e", "e", " ", "R", "e", "m", "o", "v", "a", "l">>, price |-> 90],
      [id |-> <<"m", "u", "l", "c", "h", "i", "n", "g">>,
       description |-> <<"M", "u", "l", "c", "h", "i", "n", "g">>, price |-> 100]>>

\* The database after startup: the tables created, the admin and the default
\* services seeded.
SeededStore ==
    [Person |-> (1 :> AdminUser),
     Property |-> <<>>,
     Booking |-> <<>>,
     Service |-> DefaultServices,
     BookingService |-> <<>>,
     Payment |-> <<>>,
     Roster |-> <<>>,
     seq |-> [t \in Tables \ {"Service"} |-> IF t = "Person" THEN 1 ELSE 0]]

(***************************************************************************)
(* The scripts that create, seed and drop the tables. The tables that      *)
(* exist are the fields of the store.                                      *)
(***************************************************************************)
\* The FOREIGN KEY clauses of scripts.CREATE_TABLES: child table, column, parent
ForeignKeys ==
    {<<"Booking", "person_id", "Person">>, <<"Booking", "property_id", "Property">>,
     <<"BookingService", "booking_id", "Booking">>,
     <<"BookingService", "service_id", "Service">>,
     <<"Payment", "booking_id", "Booking">>,
     <<"Roster", "person_id", "Person">>,
     <<"Roster", "booking_service_id", "BookingService">>}

\* Whether a row of an existing child table references a row of the table.
HasReferencedRow(s, name) ==
    \E fk \in ForeignKeys :
        /\ fk[3] = name
        /\ fk[1] \in DOMAIN s
        /\ \E c \in DOMAIN s[fk[1]], r \in DOMAIN s[name] :
              IF name = "Service"
              THEN ServiceIdRefers(s[fk[1]][c][fk[2]], s[name][r].id)
              ELSE s[fk[1]][c][fk[2]] = s[name][r].id

\* A faulty drop order, parents first; the reset property distinguishes it
\* from the script below.
DROP_TABLES_parents_first ==
    <<"Person", "Property", "Service", "Booking", "Payment", "BookingService", "Roster">>

\* scripts.DROP_TABLES: the tables in the order of its statements
DROP_TABLES ==
    <<"Roster", "BookingService", "Payment", "Booking", "Service", "Property", "Person">>

RECURSIVE DropTables(_, _)
\* DROP TABLE IF EXISTS for each name in turn. With foreign keys on, a drop
\* deletes the rows first and fails if a child row references one of them;
\* the script stops at the statement that fails. A dropped table loses its
\* sqlite_sequence entry.
DropTables(s, names) ==
    IF names = <<>> THEN [store |-> s, error |-> None]
    ELSE IF Head(names) \notin DOMAIN s THEN DropTables(s, Tail(names))
    ELSE IF HasReferencedRow(s, Head(names))
    THEN [store |-> s, error |-> "FOREIGN KEY constraint failed"]
    ELSE DropTables(
             [t \in DOMAIN s \ {Head(names)} |->
                 IF t = "seq" THEN [u \in DOMAIN s.seq \ {Head(names)} |-> s.seq[u]]
                 ELSE s[t]],
             Tail(names))

\* scripts.CREATE_TABLES: CREATE TABLE IF NOT EXISTS for each of the tables
CREATE_TABLES(s) ==
    [t \in Tables \cup {"seq"} |->
        IF t = "seq"
        THEN [u \in Tables \ {"Service"} |-> IF u \in DOMAIN s.seq THEN s.seq[u] ELSE 0]
        ELSE IF t \in DOMAIN s THEN s[t] ELSE <<>>]

\* A faulty seed that replaces the row on a conflict (INSERT OR REPLACE); the
\* idempotence property distinguishes it from the statement below.
CREATE_ADMIN_USER_or_replace(s) ==
    LET kept == [r \in {x \in DOMAIN s.Person :
                            /\ x # 1
                            /\ s.Person[x].username # AdminUser.username
                            /\ s.Person[x].email # AdminUser.email} |-> s.Person[r]]
    IN [s EXCEPT !.Person = WithRow(kept, 1, AdminUser), !.seq.Person = Max({@, 1})]

\* scripts.CREATE_ADMIN_USER: INSERT ... VALUES (1, ...) ON CONFLICT DO NOTHING
CREATE_ADMIN_USER(s) ==
    IF \/ 1 \in DOMAIN s.Person
       \/ \E r \in DOMAIN s.Person : \/ s.Person[r].username = AdminUser.username
                                     \/ s.Person[r].email = AdminUser.email
    THEN s
    ELSE [s EXCEPT !.Person = WithRow(@, 1, AdminUser),
                   !.seq.Person = Max({@, 1})]

RECURSIVE InsertServices(_, _)
\* INSERT INTO Service ... ON CONFLICT DO NOTHING, row by row
InsertServices(s, rows) ==
    IF rows = <<>> THEN s
    ELSE InsertServices(
             IF \E r \in DOMAIN s.Service : s.Service[r].id = Head(rows).id THEN s
             ELSE [s EXCEPT !.Service = WithRow(@, NextRowid(@), Head(rows))],
             Tail(rows))

\* scripts.ADD_DEFAULT_SERVICES
ADD_DEFAULT_SERVICES(s) == InsertServices(s, DefaultServices)

\* Startup: the tables created if they are missing, then the two seeds.
Startup(s) == ADD_DEFAULT_SERVICES(CREATE_ADMIN_USER(CREATE_TABLES(s)))

\* Reset: every table dropped, then created again.
Reset(s) ==
    LET dropped == DropTables(s, DROP_TABLES)
    IN [store |-> CREATE_TABLES(dropped.store), error |-> dropped.error]

(***************************************************************************)
(* The state                                                               *)
(***************************************************************************)
VARIABLES
    store,              \* query revision: the SQLite database, or Closed
    db,                 \* class revision: the Database object, or Closed
    model,              \* class revision: the caller's model object of the last call
    call,               \* the last data-layer call: its function and arguments
    ret,                \* what the last call returned or raised
    emitted,            \* the signals that the last call emitted, in order
    logged_in_as_user,  \* Ui.logged_in_as_user: <<>> for None, else <<person>>
    ui,                 \* the widgets of Ui: what is visible, selected and open
    writes              \* the number of calls of the run that changed the database

vars == <<store, db, model, call, ret, emitted, logged_in_as_user, ui, writes>>

(***************************************************************************)
(* Statements and the execution shim                                       *)
(*                                                                         *)
(* A statement run on a store s gives an outcome: the exception it raised  *)
(* (None if it ran), the rows it returned, cursor.rowcount,                *)
(* cursor.lastrowid (<<>> for None) and the store it leaves.               *)
(***************************************************************************)
Selected(s, rows) ==
    [exc |-> None, rows |-> rows, rowcount |-> -1, lastrowid |-> <<>>, store |-> s]

Wrote(s, rowcount, lastrowid) ==
    [exc |-> None, rows |-> <<>>, rowcount |-> rowcount, lastrowid |-> lastrowid, store |-> s]

Failed(s, exc) ==
    [exc |-> exc, rows |-> <<>>, rowcount |-> -1, lastrowid |-> <<>>, store |-> s]

\* DELETE FROM name WHERE gone(row), on a table that the relation referenced
\* points to: a row that a child row references cannot go.
Delete(s, name, gone(_), referenced(_)) ==
    LET going == {r \in DOMAIN s[name] : gone(s[name][r])}
    IN IF \E r \in going : referenced(s[name][r])
       THEN Failed(s, "FOREIGN KEY constraint failed")
       ELSE Wrote([s EXCEPT ![name] = Without(s[name], gone)], Cardinality(going), <<>>)

\* database.execute: run the statement, commit, return the envelope
\* (error, data, lastrowid); on success with affected rows emit database_updated.
execute(outcome) ==
    IF outcome.exc # None
    THEN [error |-> outcome.exc, data |-> <<>>, lastrowid |-> <<>>,
          store |-> outcome.store, updated |-> FALSE]
    ELSE [error |-> None, data |-> outcome.rows, lastrowid |-> outcome.lastrowid,
          store |-> outcome.store, updated |-> outcome.rowcount > 0]

(***************************************************************************)
(* Row transformers, called with the columns of a row as keyword           *)
(* arguments. fails names the exception the                                *)
(* constructor raises on the row, None if it builds value.                 *)
(***************************************************************************)
Built(value) == [fails |-> None, value |-> value]

Rejected(exception) == [fails |-> exception]

\* A faulty Person that takes any text for an email; the validation property
\* distinguishes it from the record below.
Person_unvalidated(row) == Built([row EXCEPT !.is_employee = (row.is_employee = 1)])

\* schema.Person: email is an EmailStr, is_employee a bool
Person(row) ==
    IF IsEmail(row.email)
    THEN Built([row EXCEPT !.is_employee = (row.is_employee = 1)])
    ELSE Rejected("ValidationError")

\* schema.Property
Property(row) == Built(row)

\* schema.Booking: booking_date is a date
Booking(row) ==
    IF IsIsoDate(row.booking_date)
    THEN Built([row EXCEPT !.booking_date = ParseDate(row.booking_date)])
    ELSE Rejected("ValidationError")

\* schema.Service
Service(row) == Built(row)

\* schema.BookingService: service_id is a str (an int is not coerced), completed a bool
BookingService(row) ==
    IF row.service_id.cls = "text"
    THEN Built([row EXCEPT !.service_id = row.service_id.txt,
                           !.completed = (row.completed = 1)])
    ELSE Rejected("ValidationError")

\* schema.Payment: payment_date is a date
Payment(row) ==
    IF IsIsoDate(row.payment_date)
    THEN Built([row EXCEPT !.payment_date = ParseDate(row.payment_date)])
    ELSE Rejected("ValidationError")

\* query.passthrough on keyword arguments: no positional argument, so None
passthrough(row) == Built(None)

\* query.extract_count_int(count=...)
extract_count_int(row) == Built(row.count)

\* int(count=...): int takes no keyword argument
int(row) == Rejected("TypeError")

\* query.BookingCost, query.PaymentTotals: the columns as they are
Aggregate(row) == Built(row)

\* query.__execute: map the transformer over the rows of the envelope. Only a
\* ValidationError is caught; any other exception leaves the function.
query_execute(transformer(_), result) ==
    LET mapped  == [i \in 1..Len(result.data) |-> transformer(result.data[i])]
        failing == {i \in 1..Len(result.data) : mapped[i].fails # None}
        first   == CHOOSE i \in failing : \A j \in failing : i <= j
    IN IF failing = {}
       THEN [raised |-> None, error |-> result.error,
             value |-> [i \in 1..Len(result.data) |-> mapped[i].value],
             lastrowid |-> result.lastrowid,
             store |-> result.store, updated |-> result.updated]
       ELSE IF mapped[first].fails = "ValidationError"
       THEN [raised |-> None, error |-> "ValidationError", value |-> <<>>,
             lastrowid |-> <<>>, store |-> result.store, updated |-> result.updated]
       ELSE [raised |-> mapped[first].fails, error |-> None, value |-> <<>>,
             lastrowid |-> <<>>, store |-> result.store, updated |-> result.updated]

(***************************************************************************)
(* Person management (query.py with the statements of scripts.py)          *)
(***************************************************************************)
\* A faulty create_person whose table declares only the username UNIQUE; the
\* uniqueness property distinguishes it from the function below.
create_person_unique_username(s, username, first_name, last_name, email, phone_number, hashed_password) ==
    LET id == NextId(s, "Person")
        row == [id |-> id, username |-> username, first_name |-> first_name,
                last_name |-> last_name, email |-> email,
                phone_number |-> phone_number, is_employee |-> 0,
                hashed_password |-> hashed_password]
    IN query_execute(Person, execute(
        IF \E r \in DOMAIN s.Person : s.Person[r].username = username
        THEN Failed(s, "UNIQUE constraint failed")
        ELSE Wrote([s EXCEPT !.Person = WithRow(@, id, row), !.seq.Person = id],
                   1, <<id>>)))

\* scripts.CREATE_PERSON: username and email are UNIQUE, is_employee is 0
create_person(s, username, first_name, last_name, email, phone_number, hashed_password) ==
    LET id == NextId(s, "Person")
        row == [id |-> id, username |-> username, first_name |-> first_name,
                last_name |-> last_name, email |-> email,
                phone_number |-> phone_number, is_employee |-> 0,
                hashed_password |-> hashed_password]
    IN query_execute(Person, execute(
        IF \E r \in DOMAIN s.Person :
              s.Person[r].username = username \/ s.Person[r].email = email
        THEN Failed(s, "UNIQUE constraint failed")
        ELSE Wrote([s EXCEPT !.Person = WithRow(@, id, row), !.seq.Person = id],
                   1, <<id>>)))

\* scripts.DELETE_PERSON; Booking.person_id and Roster.person_id reference Person
delete_person(s, person_id) ==
    query_execute(passthrough, execute(
        Delete(s, "Person", LAMBDA row : row.id = person_id,
               LAMBDA row : \/ \E b \in DOMAIN s.Booking : s.Booking[b].person_id = row.id
                            \/ \E r \in DOMAIN s.Roster : s.Roster[r].person_id = row.id)))

\* scripts.GET_PERSON_BY_ID
get_person_by_id(s, person_id) ==
    query_execute(Person, execute(
        Selected(s, SelectSeq(Scan(s.Person), LAMBDA row : row.id = person_id))))

\* A faulty login_person that selects by the username alone; the login
\* property distinguishes it from the function below.
login_person_by_username(s, username, hashed_password) ==
    query_execute(Person, execute(
        Selected(s, SelectSeq(Scan(s.Person), LAMBDA row : row.username = username))))

\* scripts.LOGIN_PERSON
login_person(s, username, hashed_password) ==
    query_execute(Person, execute(
        Selected(s, SelectSeq(Scan(s.Person),
            LAMBDA row : row.username = username /\ row.hashed_password = hashed_password))))

\* UPDATE Person SET is_employee = flag WHERE id = :person_id
set_person_rank(s, person_id, flag) ==
    query_execute(passthrough, execute(
        IF person_id \in DOMAIN s.Person
        THEN Wrote([s EXCEPT !.Person[person_id].is_employee = flag], 1, <<>>)
        ELSE Wrote(s, 0, <<>>)))

\* scripts.SET_PERSON_EMPLOYEE
set_person_employee(s, person_id) == set_person_rank(s, person_id, 1)

\* scripts.SET_PERSON_CUSTOMER
set_person_customer(s, person_id) == set_person_rank(s, person_id, 0)

\* scripts.GET_PERSON_COUNT
get_person_count(s) ==
    query_execute(extract_count_int, execute(
        Selected(s, <<[count |-> Cardinality(DOMAIN s.Person)]>>)))

\* scripts.GET_PERSON_PAGE
get_person_page(s, offset, limit) ==
    query_execute(Person, execute(
        Selected(s, LimitOffset(Scan(s.Person), limit, offset))))

\* scripts.SEARCH_PERSONS
search_persons(s, query, offset, limit) ==
    IF query = <<>> THEN get_person_page(s, offset, limit)
    ELSE query_execute(Person, execute(
        Selected(s, LimitOffset(
            SelectSeq(Scan(s.Person),
                LAMBDA row : \/ Like(row.first_name, Wrap(query))
                             \/ Like(row.last_name, Wrap(query))
                             \/ Like(row.email, Wrap(query))
                             \/ Like(row.phone_number, Wrap(query))),
            limit, offset))))

(***************************************************************************)
(* Property management                                                     *)
(***************************************************************************)
\* scripts.CREATE_PROPERTY
create_property(s, street_address, city, state, post_code) ==
    LET id == NextId(s, "Property")
        row == [id |-> id, street_address |-> street_address, city |-> city,
                state |-> state, post_code |-> post_code]
    IN query_execute(Property, execute(
        Wrote([s EXCEPT !.Property = WithRow(@, id, row), !.seq.Property = id],
              1, <<id>>)))

\* scripts.DELETE_PROPERTY; Booking.property_id references Property
delete_property(s, property_id) ==
    query_execute(passthrough, execute(
        Delete(s, "Property", LAMBDA row : row.id = property_id,
               LAMBDA row : \E b \in DOMAIN s.Booking : s.Booking[b].property_id = row.id)))

\* scripts.GET_PROPERTY_BY_ID
get_property_by_id(s, property_id) ==
    query_execute(Property, execute(
        Selected(s, SelectSeq(Scan(s.Property), LAMBDA row : row.id = property_id))))

\* scripts.GET_PROPERTY_COUNT
get_property_count(s) ==
    query_execute(extract_count_int, execute(
        Selected(s, <<[count |-> Cardinality(DOMAIN s.Property)]>>)))

\* scripts.GET_PROPERTY_PAGE
get_property_page(s, offset, limit) ==
    query_execute(Property, execute(
        Selected(s, LimitOffset(Scan(s.Property), limit, offset))))

\* The WHERE clause of scripts.SEARCH_PROPERTIES, also the inner SELECT of
\* scripts.SEARCH_BOOKINGS on Property
PropertyLike(row, pattern) ==
    \/ Like(row.street_address, pattern)
    \/ Like(row.city, pattern)
    \/ Like(row.state, pattern)
    \/ Like(row.post_code, pattern)

\* scripts.SEARCH_PROPERTIES
search_properties(s, query, offset, limit) ==
    IF query = <<>> THEN get_property_page(s, offset, limit)
    ELSE query_execute(Property, execute(
        Selected(s, LimitOffset(
            SelectSeq(Scan(s.Property), LAMBDA row : PropertyLike(row, Wrap(query))),
            limit, offset))))

(***************************************************************************)
(* Booking management                                                      *)
(***************************************************************************)
\* A faulty create_booking whose insert does not look up the parents; the
\* foreign-key property distinguishes it from the function below.
create_booking_unchecked(s, property_id, person_id, booking_date) ==
    LET id == NextId(s, "Booking")
        row == [id |-> id, person_id |-> person_id, property_id |-> property_id,
                booking_date |-> isoformat(booking_date)]
    IN query_execute(Booking, execute(
        Wrote([s EXCEPT !.Booking = WithRow(@, id, row), !.seq.Booking = id],
              1, <<id>>)))

\* scripts.CREATE_BOOKING; sqlite3 binds the date as its ISO text
create_booking(s, property_id, person_id, booking_date) ==
    LET id == NextId(s, "Booking")
        row == [id |-> id, person_id |-> person_id, property_id |-> property_id,
                booking_date |-> isoformat(booking_date)]
    IN query_execute(Booking, execute(
        IF person_id \notin DOMAIN s.Person \/ property_id \notin DOMAIN s.Property
        THEN Failed(s, "FOREIGN KEY constraint failed")
        ELSE Wrote([s EXCEPT !.Booking = WithRow(@, id, row), !.seq.Booking = id],
                   1, <<id>>)))

\* scripts.DELETE_BOOKING; BookingService.booking_id and Payment.booking_id
\* reference Booking
delete_booking(s, booking_id) ==
    query_execute(passthrough, execute(
        Delete(s, "Booking", LAMBDA row : row.id = booking_id,
               LAMBDA row :
                   \/ \E b \in DOMAIN s.BookingService :
                          s.BookingService[b].booking_id = row.id
                   \/ \E p \in DOMAIN s.Payment : s.Payment[p].booking_id = row.id)))

\* scripts.GET_BOOKING_BY_ID
get_booking_by_id(s, booking_id) ==
    query_execute(Booking, execute(
        Selected(s, SelectSeq(Scan(s.Booking), LAMBDA row : row.id = booking_id))))

\* scripts.GET_BOOKING_COUNT
get_booking_count(s) ==
    query_execute(extract_count_int, execute(
        Selected(s, <<[count |-> Cardinality(DOMAIN s.Booking)]>>)))

\* scripts.GET_BOOKING_PAGE
get_booking_page(s, offset, limit) ==
    query_execute(Booking, execute(
        Selected(s, LimitOffset(Scan(s.Booking), limit, offset))))

\* scripts.SEARCH_BOOKINGS: the date, or the person's or the property's texts
search_bookings(s, query, offset, limit) ==
    IF query = <<>> THEN get_booking_page(s, offset, limit)
    ELSE query_execute(Booking, execute(
        Selected(s, LimitOffset(
            SelectSeq(Scan(s.Booking),
                LAMBDA row :
                    \/ Like(row.booking_date, Wrap(query))
                    \/ \E p \in DOMAIN s.Person :
                        /\ p = row.person_id
                        /\ \/ Like(s.Person[p].first_name, Wrap(query))
                           \/ Like(s.Person[p].last_name, Wrap(query))
                           \/ Like(s.Person[p].email, Wrap(query))
                           \/ Like(s.Person[p].phone_number, Wrap(query))
                    \/ \E p \in DOMAIN s.Property :
                        p = row.property_id /\ PropertyLike(s.Property[p], Wrap(query))),
            limit, offset))))

(***************************************************************************)
(* Service management                                                      *)
(***************************************************************************)
\* scripts.CREATE_SERVICE: id is the VARCHAR primary key
create_service(s, id, description, price) ==
    LET rowid == NextRowid(s.Service)
        row == [id |-> id, description |-> description, price |-> price]
    IN query_execute(Service, execute(
        IF \E r \in DOMAIN s.Service : s.Service[r].id = id
        THEN Failed(s, "UNIQUE constraint failed")
        ELSE Wrote([s EXCEPT !.Service = WithRow(@, rowid, row)], 1, <<rowid>>)))

\* scripts.DELETE_SERVICE; BookingService.service_id references Service
delete_service(s, service_id) ==
    query_execute(passthrough, execute(
        Delete(s, "Service", LAMBDA row : row.id = service_id,
               LAMBDA row : \E b \in DOMAIN s.BookingService :
                   ServiceIdMatches(row.id, s.BookingService[b].service_id))))

\* scripts.GET_SERVICE_BY_ID
get_service_by_id(s, service_id) ==
    query_execute(Service, execute(
        Selected(s, SelectSeq(Scan(s.Service), LAMBDA row : row.id = service_id))))

\* scripts.GET_SERVICE_COUNT
get_service_count(s) ==
    query_execute(extract_count_int, execute(
        Selected(s, <<[count |-> Cardinality(DOMAIN s.Service)]>>)))

\* scripts.GET_SERVICE_PAGE
get_service_page(s, offset, limit) ==
    query_execute(Service, execute(
        Selected(s, LimitOffset(Scan(s.Service), limit, offset))))

\* scripts.SEARCH_SERVICES
search_services(s, query, offset, limit) ==
    IF query = <<>> THEN get_service_page(s, offset, limit)
    ELSE query_execute(Service, execute(
        Selected(s, LimitOffset(
            SelectSeq(Scan(s.Service),
                LAMBDA row : \/ Like(row.id, Wrap(query))
                             \/ Like(row.description, Wrap(query))
                             \/ Like(IntText(row.price), Wrap(query))),
            limit, offset))))

\* The rows of BookingService INNER JOIN Service ON Service.id =
\* BookingService.service_id WHERE booking_id = :booking_id, as their prices
JoinedPrices(s, booking_id) ==
    LET attached == SelectSeq(Scan(s.BookingService),
                              LAMBDA row : row.booking_id = booking_id)
        RECURSIVE Prices(_)
        Prices(i) ==
            IF i > Len(attached) THEN <<>>
            ELSE LET matching == SelectSeq(Scan(s.Service),
                        LAMBDA service : ServiceIdMatches(service.id, attached[i].service_id))
                 IN [k \in 1..Len(matching) |-> matching[k].price] \o Prices(i + 1)
    IN Prices(1)

\* scripts.GET_BOOKING_COST
get_booking_cost(s, booking_id) ==
    query_execute(Aggregate, execute(
        Selected(s, <<[total |-> Sum(JoinedPrices(s, booking_id))]>>)))

(***************************************************************************)
(* Booking service management                                              *)
(***************************************************************************)
\* scripts.CREATE_BOOKING_SERVICE: service_id goes into the INTEGER column;
\* duration as given, completed by default 0
create_booking_service(s, booking_id, service_id, duration) ==
    LET id == NextId(s, "BookingService")
        row == [id |-> id, booking_id |-> booking_id,
                service_id |-> IntegerAffinity(service_id),
                duration |-> duration, completed |-> 0]
    IN query_execute(BookingService, execute(
        IF \/ booking_id \notin DOMAIN s.Booking
           \/ ~\E r \in DOMAIN s.Service : ServiceIdRefers(row.service_id, s.Service[r].id)
        THEN Failed(s, "FOREIGN KEY constraint failed")
        ELSE Wrote([s EXCEPT !.BookingService = WithRow(@, id, row),
                             !.seq.BookingService = id],
                   1, <<id>>)))

\* scripts.DELETE_BOOKING_SERVICE: the parameter takes the column's INTEGER
\* affinity; Roster.booking_service_id references BookingService
delete_booking_service(s, booking_id, service_id) ==
    query_execute(passthrough, execute(
        Delete(s, "BookingService",
               LAMBDA row : /\ row.booking_id = booking_id
                            /\ row.service_id = IntegerAffinity(service_id),
               LAMBDA row : \E r \in DOMAIN s.Roster :
                   s.Roster[r].booking_service_id = row.id)))

\* scripts.GET_SERVICE_BY_BOOKING_AND_SERVICE: the parameter takes the column's
\* INTEGER affinity
get_service_by_booking_and_service(s, booking_id, service_id) ==
    query_execute(BookingService, execute(
        Selected(s, SelectSeq(Scan(s.BookingService),
            LAMBDA row : /\ row.booking_id = booking_id
                         /\ row.service_id = IntegerAffinity(service_id)))))

\* scripts.DELETE_BOOKINGS_SERVICES; Roster.booking_service_id references
\* BookingService
delete_bookings_services(s, booking_id) ==
    query_execute(passthrough, execute(
        Delete(s, "BookingService", LAMBDA row : row.booking_id = booking_id,
               LAMBDA row : \E r \in DOMAIN s.Roster :
                   s.Roster[r].booking_service_id = row.id)))

\* scripts.TOGGLE_COMPLETION_BOOKING_SERVICE: the parameter takes the column's
\* INTEGER affinity
toggle_completion_booking_service(s, booking_id, service_id) ==
    LET hit == {r \in DOMAIN s.BookingService :
                   /\ s.BookingService[r].booking_id = booking_id
                   /\ s.BookingService[r].service_id = IntegerAffinity(service_id)}
    IN query_execute(passthrough, execute(
        Wrote([s EXCEPT !.BookingService =
                  [r \in DOMAIN @ |->
                      IF r \in hit
                      THEN [@[r] EXCEPT !.completed = IF @ = 0 THEN 1 ELSE 0]
                      ELSE @[r]]],
              Cardinality(hit), <<>>)))

\* query.BookingServiceCompletion: completed and total are ints
BookingServiceCompletion(row) == Built(row)

\* A faulty completion query that counts every service as completed; the
\* completion property distinguishes it from the function below.
get_completed_service_count_by_booking_all(s, booking_id) ==
    LET of_booking == SelectSeq(Scan(s.BookingService),
                                LAMBDA row : row.booking_id = booking_id)
    IN query_execute(BookingServiceCompletion, execute(
        Selected(s, <<[total |-> Len(of_booking), completed |-> Len(of_booking)]>>)))

\* scripts.GET_COMPLETED_SERVICE_COUNT_BY_BOOKING: COUNT(*) and SUM(completed)
get_completed_service_count_by_booking(s, booking_id) ==
    LET of_booking == SelectSeq(Scan(s.BookingService),
                                LAMBDA row : row.booking_id = booking_id)
    IN query_execute(BookingServiceCompletion, execute(
        Selected(s, <<[total |-> Len(of_booking),
                       completed |-> Sum([i \in 1..Len(of_booking) |->
                                             of_booking[i].completed])]>>)))

\* scripts.GET_SERVICE_COUNT_BY_BOOKING
get_service_count_by_booking(s, booking_id) ==
    query_execute(extract_count_int, execute(
        Selected(s, <<[count |-> Cardinality({r \in DOMAIN s.BookingService :
                                    s.BookingService[r].booking_id = booking_id})]>>)))

\* scripts.GET_SERVICE_PAGE_BY_BOOKING: ORDER BY completed ASC, equals in scan order
get_service_page_by_booking(s, booking_id, offset, limit) ==
    LET of_booking == SelectSeq(Scan(s.BookingService),
                                LAMBDA row : row.booking_id = booking_id)
        ordered == SelectSeq(of_booking, LAMBDA row : row.completed = 0)
                   \o SelectSeq(of_booking, LAMBDA row : row.completed # 0)
    IN query_execute(BookingService, execute(
        Selected(s, LimitOffset(ordered, limit, offset))))

\* scripts.SEARCH_SERVICES_BY_BOOKING: no ORDER BY
search_services_by_booking(s, booking_id, query, offset, limit) ==
    IF query = <<>> THEN get_service_page_by_booking(s, booking_id, offset, limit)
    ELSE query_execute(BookingService, execute(
        Selected(s, LimitOffset(
            SelectSeq(Scan(s.BookingService),
                LAMBDA row : /\ row.booking_id = booking_id
                             /\ \/ Like(row.service_id.txt, Wrap(query))
                                \/ Like(IntText(row.duration), Wrap(query))),
            limit, offset))))

\* scripts.GET_SERVICES_PERSON_AND_DATE: the services of the bookings of the
\* person whose booking_date lies between the two dates, both bound as
\* ISO texts
get_services_person_and_date(s, person_id, start_date, end_date) ==
    query_execute(BookingService, execute(
        Selected(s, SelectSeq(Scan(s.BookingService),
            LAMBDA row : \E b \in DOMAIN s.Booking :
                /\ b = row.booking_id
                /\ s.Booking[b].person_id = person_id
                /\ IsIsoDate(s.Booking[b].booking_date)
                /\ start_date.date <= ParseDate(s.Booking[b].booking_date).date
                /\ ParseDate(s.Booking[b].booking_date).date <= end_date.date))))

(***************************************************************************)
(* Payment management                                                      *)
(***************************************************************************)
\* scripts.CREATE_PAYMENT, bound with payment_date.isoformat()
create_payment(s, booking_id, amount, payment_date) ==
    LET id == NextId(s, "Payment")
        row == [id |-> id, booking_id |-> booking_id, amount |-> amount,
                payment_date |-> isoformat(payment_date)]
    IN query_execute(Payment, execute(
        IF booking_id \notin DOMAIN s.Booking
        THEN Failed(s, "FOREIGN KEY constraint failed")
        ELSE Wrote([s EXCEPT !.Payment = WithRow(@, id, row), !.seq.Payment = id],
                   1, <<id>>)))

\* A faulty delete_payment that deletes the newest payment when the id matches
\* none; the delete property distinguishes it from the function below.
delete_payment_or_newest(s, payment_id) ==
    LET target == IF payment_id \in DOMAIN s.Payment THEN payment_id
                  ELSE Max({0} \cup DOMAIN s.Payment)
    IN query_execute(passthrough, execute(
        Delete(s, "Payment", LAMBDA row : row.id = target, LAMBDA row : FALSE)))

\* scripts.DELETE_PAYMENT
delete_payment(s, payment_id) ==
    query_execute(passthrough, execute(
        Delete(s, "Payment", LAMBDA row : row.id = payment_id, LAMBDA row : FALSE)))

\* scripts.GET_PAYMENT_BY_ID
get_payment_by_id(s, payment_id) ==
    query_execute(Payment, execute(
        Selected(s, SelectSeq(Scan(s.Payment), LAMBDA row : row.id = payment_id))))

\* scripts.GET_PAYMENT_COUNT, with int as the transformer
get_payment_count(s, booking_id) ==
    query_execute(int, execute(
        Selected(s, <<[count |-> Cardinality({r \in DOMAIN s.Payment :
                                    s.Payment[r].booking_id = booking_id})]>>)))

\* scripts.GET_PAYMENT_PAGE
get_payment_page(s, booking_id, offset, limit) ==
    query_execute(Payment, execute(
        Selected(s, LimitOffset(
            SelectSeq(Scan(s.Payment), LAMBDA row : row.booking_id = booking_id),
            limit, offset))))

\* A faulty search_payments that runs scripts.SEARCH_PAYMENTS for the empty
\* query too; the search property distinguishes it from the function below.
search_payments_always(s, booking_id, query, offset, limit) ==
    query_execute(Payment, execute(Failed(s, "no such column: booking_date")))

\* scripts.SEARCH_PAYMENTS: the statement names booking_date, which Payment
\* does not have, so it cannot be prepared
search_payments(s, booking_id, query, offset, limit) ==
    IF query = <<>> THEN get_payment_page(s, booking_id, offset, limit)
    ELSE query_execute(Payment, execute(Failed(s, "no such column: booking_date")))

\* scripts.GET_PAYMENT_TOTALS_BY_BOOKING
get_payment_totals_by_booking(s, booking_id) ==
    LET paid == SelectSeq(Scan(s.Payment), LAMBDA row : row.booking_id = booking_id)
    IN query_execute(Aggregate, execute(
        Selected(s, <<[total_amount |-> Sum([i \in 1..Len(paid) |-> paid[i].amount]),
                       total_count |-> Len(paid)]>>)))

(***************************************************************************)
(* Roster management                                                       *)
(***************************************************************************)
\* schema.Roster
Roster(row) == Built(row)

\* scripts.CREATE_ROSTER; person_id references Person, booking_service_id
\* references BookingService
create_roster(s, person_id, booking_service_id) ==
    LET id == NextId(s, "Roster")
        row == [id |-> id, person_id |-> person_id,
                booking_service_id |-> booking_service_id]
    IN query_execute(Roster, execute(
        IF person_id \notin DOMAIN s.Person
              \/ booking_service_id \notin DOMAIN s.BookingService
        THEN Failed(s, "FOREIGN KEY constraint failed")
        ELSE Wrote([s EXCEPT !.Roster = WithRow(@, id, row), !.seq.Roster = id],
                   1, <<id>>)))

\* scripts.DELETE_ROSTER
delete_roster(s, person_id, booking_service_id) ==
    query_execute(passthrough, execute(
        Delete(s, "Roster",
               LAMBDA row : row.person_id = person_id
                            /\ row.booking_service_id = booking_service_id,
               LAMBDA row : FALSE)))

(***************************************************************************)
(* The class revision: database.Database                                   *)
(*                                                                         *)
(* The five entities with an id (Customer, Property, Booking, Service,     *)
(* Payment) have the same methods up to the table, the columns and the     *)
(* signal, so one operator with the kind of entity as a parameter models   *)
(* each family: Database_add is add_customer, add_property, add_booking,   *)
(* add_service and create_payment. The text columns hold TLA+ strings. A   *)
(* datetime is [cls |-> "datetime", txt |-> its text], a Python str in its *)
(* place [cls |-> "str", txt |-> the text].                                *)
(***************************************************************************)
Kinds == {"Customer", "Property", "Booking", "Service", "Payment"}

\* The Signal attribute of Database that the methods of a kind emit.
SignalOf(kind) ==
    CASE kind = "Customer" -> "customers_changed"
      [] kind = "Property" -> "properties_changed"
      [] kind = "Booking" -> "bookings_changed"
      [] kind = "Service" -> "services_changed"
      [] kind = "Payment" -> "payments_changed"

\* CustomerModel.is_transient and its namesakes
is_transient(kind, m) ==
    CASE kind = "Booking" -> m.id = -1 \/ m.customer_id = -1 \/ m.property_id = -1
      [] kind = "Payment" -> m.id = -1 \/ m.booking_id = -1
      [] kind = "BookingService" -> m.booking_id = -1 \/ m.service_id = -1
      [] OTHER -> m.id = -1

\* What sqlite3 binds for a datetime parameter: str(value), also for a str.
Adapt(value) == value.txt

\* The row that the INSERT of a kind writes for a model, under the id given.
RowOf(kind, id, m) ==
    CASE kind = "Customer" ->
            [id |-> id, first_name |-> m.first_name, last_name |-> m.last_name,
             email |-> m.email, phone_number |-> m.phone]
      [] kind = "Property" ->
            [id |-> id, street_number |-> m.street_number, unit |-> m.unit,
             street_name |-> m.street_name, city |-> m.city, post_code |-> m.post_code]
      [] kind = "Booking" ->
            [id |-> id, customer_id |-> m.customer_id, property_id |-> m.property_id,
             date_time |-> Adapt(m.when)]
      [] kind = "Service" ->
            [id |-> id, name |-> m.name, base_price |-> m.base_price]
      [] kind = "Payment" ->
            [id |-> id, booking_id |-> m.booking_id, amount |-> m.amount,
             payment_date |-> Adapt(m.payment_date)]

\* CustomerModel(*row) and its namesakes: the columns in order; a text column
\* comes back as a str.
ModelOf(kind, row) ==
    CASE kind = "Customer" ->
            [id |-> row.id, first_name |-> row.first_name, last_name |-> row.last_name,
             email |-> row.email, phone |-> row.phone_number]
      [] kind = "Property" -> row
      [] kind = "Booking" ->
            [id |-> row.id, customer_id |-> row.customer_id,
             property_id |-> row.property_id,
             when |-> [cls |-> "str", txt |-> row.date_time]]
      [] kind = "Service" -> row
      [] kind = "Payment" ->
            [id |-> row.id, booking_id |-> row.booking_id, amount |-> row.amount,
             payment_date |-> [cls |-> "str", txt |-> row.payment_date]]

\* The foreign keys of a row of a kind: its parents exist.
ParentsExist(d, kind, row) ==
    CASE kind = "Booking" ->
            row.customer_id \in DOMAIN d.Customer /\ row.property_id \in DOMAIN d.Property
      [] kind = "Payment" -> row.booking_id \in DOMAIN d.Booking
      [] OTHER -> TRUE

\* Whether a child row references the row id of a kind.
Referenced(d, kind, id) ==
    CASE kind = "Customer" -> \E b \in DOMAIN d.Booking : d.Booking[b].customer_id = id
      [] kind = "Property" -> \E b \in DOMAIN d.Booking : d.Booking[b].property_id = id
      [] kind = "Booking" ->
            \/ \E b \in DOMAIN d.BookingService : d.BookingService[b].booking_id = id
            \/ \E p \in DOMAIN d.Payment : d.Payment[p].booking_id = id
      [] kind = "Service" ->
            \E b \in DOMAIN d.BookingService : d.BookingService[b].service_id = id
      [] OTHER -> FALSE

\* A method returned value, with the model and the database as it leaves them
\* and the signals it emitted.
Returned(value, m, d, signals) ==
    [raised |-> None, value |-> value, model |-> m, db |-> d, emitted |-> signals]

\* A method left by an exception: nothing was committed or emitted.
Raised(exception, m, d) ==
    [raised |-> exception, value |-> <<>>, model |-> m, db |-> d, emitted |-> <<>>]

\* A faulty add that inserts a model whatever its id; the transient property
\* distinguishes it from the method below.
Database_add_any(d, kind, m) ==
    LET id == NextId(d, kind)
    IN IF ~ParentsExist(d, kind, RowOf(kind, id, m))
       THEN Returned(FALSE, m, [d EXCEPT !.last_error = "FOREIGN KEY constraint failed"], <<>>)
       ELSE Returned(id # -1, [m EXCEPT !.id = id],
                     [d EXCEPT ![kind] = WithRow(@, id, RowOf(kind, id, m)),
                               !.seq[kind] = id],
                     IF id # -1 THEN <<SignalOf(kind)>> ELSE <<>>)

\* Database.add_customer, add_property, add_booking, add_service, create_payment
Database_add(d, kind, m) ==
    LET id == NextId(d, kind)
    IN IF ~is_transient(kind, m) THEN Returned(FALSE, m, d, <<>>)
       ELSE IF ~ParentsExist(d, kind, RowOf(kind, id, m))
       THEN Returned(FALSE, m, [d EXCEPT !.last_error = "FOREIGN KEY constraint failed"], <<>>)
       ELSE Returned(id # -1, [m EXCEPT !.id = id],
                     [d EXCEPT ![kind] = WithRow(@, id, RowOf(kind, id, m)),
                               !.seq[kind] = id],
                     IF id # -1 THEN <<SignalOf(kind)>> ELSE <<>>)

\* Database.update_customer (the tail of add_or_update_customer), update_property,
\* update_booking, update_service, update_payment: INSERT ... ON CONFLICT(id) DO
\* UPDATE. The statement of update_booking names the column when, a keyword.
Database_update(d, kind, m) ==
    IF kind = "Booking" THEN Raised("OperationalError", m, d)
    ELSE IF ~ParentsExist(d, kind, RowOf(kind, m.id, m))
    THEN Returned(FALSE, m, [d EXCEPT !.last_error = "FOREIGN KEY constraint failed"], <<>>)
    ELSE Returned(TRUE, m,
                  [d EXCEPT ![kind] = WithRow(@, m.id, RowOf(kind, m.id, m)),
                            !.seq[kind] = Max({@, m.id})],
                  <<SignalOf(kind)>>)

\* Database.add_or_update_customer and its namesakes
Database_add_or_update(d, kind, m) ==
    IF is_transient(kind, m) THEN Database_add(d, kind, m) ELSE Database_update(d, kind, m)

\* Database.get_customer_by_id and its namesakes: <<>> for None
Database_get_by_id(d, kind, id) ==
    Returned(IF id \in DOMAIN d[kind] THEN <<ModelOf(kind, d[kind][id])>> ELSE <<>>,
             <<>>, d, <<>>)

\* A faulty remove_*_by_id that emits the signal whether or not a row went; the
\* signal property distinguishes it from the method below.
Database_remove_by_id_emitting(d, kind, ids) ==
    LET going == {r \in DOMAIN d[kind] : \E i \in 1..Len(ids) : ids[i] = r}
    IN IF \E r \in going : Referenced(d, kind, r)
       THEN Raised("IntegrityError", <<>>, d)
       ELSE Returned(going # {}, <<>>,
                     [d EXCEPT ![kind] = [r \in DOMAIN @ \ going |-> @[r]]],
                     <<SignalOf(kind)>>)

\* Database.remove_customer_by_id and its namesakes: DELETE ... WHERE id IN (ids),
\* outside any try
Database_remove_by_id(d, kind, ids) ==
    LET going == {r \in DOMAIN d[kind] : \E i \in 1..Len(ids) : ids[i] = r}
    IN IF \E r \in going : Referenced(d, kind, r)
       THEN Raised("IntegrityError", <<>>, d)
       ELSE Returned(going # {}, <<>>,
                     [d EXCEPT ![kind] = [r \in DOMAIN @ \ going |-> @[r]]],
                     IF going # {} THEN <<SignalOf(kind)>> ELSE <<>>)

\* Database.remove_customer and its namesakes. remove_payment passes [model.id];
\* the others pass model.id, an int, which remove_*_by_id cannot iterate.
Database_remove(d, kind, m) ==
    IF is_transient(kind, m) THEN Returned(FALSE, m, d, <<>>)
    ELSE IF kind # "Payment" THEN Raised("TypeError", m, d)
    ELSE LET removed == Database_remove_by_id(d, kind, <<m.id>>)
         IN [removed EXCEPT !.model = IF removed.raised = None /\ removed.value
                                       THEN [m EXCEPT !.id = -1] ELSE m]

\* Database.get_all_customers and its namesakes
Database_get_all(d, kind, page, page_size) ==
    LET rows == LimitOffset(Scan(d[kind]), page_size, (page - 1) * page_size)
    IN Returned([i \in 1..Len(rows) |-> ModelOf(kind, rows[i])], <<>>, d, <<>>)

\* Database.get_num_customer_pages and its namesakes
Database_get_num_pages(d, kind, page_size) ==
    Returned((Cardinality(DOMAIN d[kind]) + page_size - 1) \div page_size, <<>>, d, <<>>)

\* The rowids of the BookingService rows with the key (booking_id, service_id).
Attached(d, booking_id, service_id) ==
    {r \in DOMAIN d.BookingService :
        /\ d.BookingService[r].booking_id = booking_id
        /\ d.BookingService[r].service_id = service_id}

\* Database.add_booking_service: after the INSERT the model's booking_id is
\* set to cursor.lastrowid, the rowid of the new row
Database_add_booking_service(d, m) ==
    LET rowid == NextRowid(d.BookingService)
        row == [booking_id |-> m.booking_id, service_id |-> m.service_id,
                completed |-> m.completed]
    IN IF is_transient("BookingService", m) THEN Returned(FALSE, m, d, <<>>)
       ELSE IF m.booking_id \notin DOMAIN d.Booking \/ m.service_id \notin DOMAIN d.Service
       THEN Returned(FALSE, m, [d EXCEPT !.last_error = "FOREIGN KEY constraint failed"], <<>>)
       ELSE IF Attached(d, m.booking_id, m.service_id) # {}
       THEN Returned(FALSE, m, [d EXCEPT !.last_error = "UNIQUE constraint failed"], <<>>)
       ELSE Returned(rowid # -1 /\ m.service_id # -1, [m EXCEPT !.booking_id = rowid],
                     [d EXCEPT !.BookingService = WithRow(@, rowid, row)],
                     IF rowid # -1 /\ m.service_id # -1
                     THEN <<"booking_services_changed", "bookings_changed">> ELSE <<>>)

\* Database.update_booking_service: INSERT ... ON CONFLICT(booking_id, service_id)
\* DO UPDATE SET completed
Database_update_booking_service(d, m) ==
    LET rowid == IF Attached(d, m.booking_id, m.service_id) # {}
                 THEN CHOOSE r \in Attached(d, m.booking_id, m.service_id) : TRUE
                 ELSE NextRowid(d.BookingService)
        row == [booking_id |-> m.booking_id, service_id |-> m.service_id,
                completed |-> m.completed]
    IN IF m.booking_id \notin DOMAIN d.Booking \/ m.service_id \notin DOMAIN d.Service
       THEN Returned(FALSE, m, [d EXCEPT !.last_error = "FOREIGN KEY constraint failed"], <<>>)
       ELSE Returned(TRUE, m, [d EXCEPT !.BookingService = WithRow(@, rowid, row)],
                     <<"booking_services_changed", "bookings_changed">>)

\* Database.add_or_update_booking_service
Database_add_or_update_booking_service(d, m) ==
    IF is_transient("BookingService", m) THEN Database_add_booking_service(d, m)
    ELSE Database_update_booking_service(d, m)

\* Database.remove_booking_service_by_booking_service_id
Database_remove_booking_service_by_booking_service_id(d, booking_id, service_id) ==
    LET going == Attached(d, booking_id, service_id)
    IN Returned(going # {}, <<>>,
                [d EXCEPT !.BookingService = [r \in DOMAIN @ \ going |-> @[r]]],
                IF going # {} THEN <<"booking_services_changed">> ELSE <<>>)

\* Database.get_booking_service_by_booking_id_and_service_id: <<>> for None
Database_get_booking_service_by_booking_id_and_service_id(d, booking_id, service_id) ==
    LET found == Attached(d, booking_id, service_id)
    IN Returned(IF found = {} THEN <<>>
                ELSE <<d.BookingService[CHOOSE r \in found : \A q \in found : r <= q]>>,
                <<>>, d, <<>>)

\* Database.booking_get_paid_total_cost: one result row per Booking row, all
\* the same, of which fetchone takes the first; (0, 0) without any Booking
Database_booking_get_paid_total_cost(d, booking_id) ==
    LET paid == SelectSeq(Scan(d.Payment), LAMBDA row : row.booking_id = booking_id)
        attached == SelectSeq(Scan(d.BookingService),
                              LAMBDA row : row.booking_id = booking_id)
    IN Returned(IF DOMAIN d.Booking = {} THEN <<0, 0>>
                ELSE <<Sum([i \in 1..Len(paid) |-> paid[i].amount]),
                       Sum([i \in 1..Len(attached) |->
                               d.Service[attached[i].service_id].base_price])>>,
                <<>>, d, <<>>)

\* A faulty booking_has_pending_payments that counts a fully paid booking as
\* pending; the payment property distinguishes it from the method below.
Database_booking_has_pending_payments_or_paid(d, booking_id) ==
    LET paid_total == Database_booking_get_paid_total_cost(d, booking_id).value
    IN Returned(paid_total[1] <= paid_total[2], <<>>, d, <<>>)

\* Database.booking_has_pending_payments
Database_booking_has_pending_payments(d, booking_id) ==
    LET paid_total == Database_booking_get_paid_total_cost(d, booking_id).value
    IN Returned(paid_total[1] < paid_total[2], <<>>, d, <<>>)

\* Database.__init__ on a new file: the tables of static/create_tables.sql, empty
NewDatabase ==
    [Customer |-> <<>>, Property |-> <<>>, Booking |-> <<>>, Service |-> <<>>,
     BookingService |-> <<>>, Payment |-> <<>>,
     seq |-> [k \in Kinds |-> 0],
     last_error |-> ""]

\* Database.reset: the script static/drop_tables.sql, a commit, create_tables,
\* which emits customers_changed and properties_changed
Database_reset(d) ==
    Returned(None, <<>>, [NewDatabase EXCEPT !.last_error = d.last_error],
             <<"customers_changed", "properties_changed">>)

\* Database.is_booking_completed: the booking exists and is not among the
\* bookings of the services with completed = 0
Database_is_booking_completed(d, booking_id) ==
    Returned(/\ booking_id \in DOMAIN d.Booking
             /\ ~\E r \in DOMAIN d.BookingService :
                   /\ d.BookingService[r].booking_id = booking_id
                   /\ d.BookingService[r].completed = FALSE,
             <<>>, d, <<>>)

(***************************************************************************)
(* Inputs                                                                  *)
(***************************************************************************)
\* The ids that callers pass: every id a table hands out.
Ids == 1..MaxId

\* The number of persons up to which the people table is filled: one row on
\* its second page.
MaxPersons == 11

\* fakes.generate_person: a person whose texts no other person has, under
\* the id the table hands out next.
generate_person(id) ==
    [username |-> <<"u">> \o IntText(id), first_name |-> <<"F">> \o IntText(id),
     last_name |-> <<"L">>, email |-> IntText(id) \o <<"@", "b", ".", "c">>,
     phone_number |-> IntText(id), hashed_password |-> hash_plaintext(<<"p", "w">>)]

\* Arguments of create_person: Ann, and Bob whose email is not an address.
PersonInputs ==
    {[username |-> <<"a", "n", "n">>, first_name |-> <<"A", "n", "n">>,
      last_name |-> <<"L", "e", "e">>, email |-> <<"a", "@", "b", ".", "c">>,
      phone_number |-> <<"5", "5", "5">>,
      hashed_password |-> hash_plaintext(<<"p", "w">>)],
     [username |-> <<"b", "o", "b">>, first_name |-> <<"B", "o", "b">>,
      last_name |-> <<"R", "a", "y">>, email |-> <<"b", "o", "b">>,
      phone_number |-> <<"5", "5", "6">>,
      hashed_password |-> hash_plaintext(<<"p", "w">>)]}

\* The persons typed into the form of PersonManagement: Ann, one with her
\* username, one with her email, and one who shares neither.
PersonForms ==
    LET ann == CHOOSE p \in PersonInputs : IsEmail(p.email)
    IN {[ann EXCEPT !.username = username, !.email = email] :
            username \in {ann.username, <<"c", "y">>},
            email \in {ann.email, <<"c", "@", "d", ".", "e">>}}

\* The user names and the passwords typed into the login form.
Usernames == {<<"a", "d", "m", "i", "n">>, <<"a", "n", "n">>, <<"b", "o", "b">>}

Passwords == {<<"a", "d", "m", "i", "n", "1", "2", "3">>, <<"p", "w">>, <<"n", "o">>}

\* Arguments of create_property
PropertyInputs ==
    {[street_address |-> <<"1", " ", "E", "l", "m">>, city |-> <<"P", "e", "r", "t", "h">>,
      state |-> <<"W", "A">>, post_code |-> <<"6", "0", "0", "0">>]}

\* Arguments of create_service: two ids that are numerals of the same number
ServiceInputs ==
    {[id |-> <<"1">>, description |-> <<"O", "n", "e">>, price |-> 10],
     [id |-> <<"0", "1">>, description |-> <<"Z", "e", "r", "o">>, price |-> 20]}

\* The service ids that callers pass: two seeded ones (50 and 30) and the numerals
ServiceIds == {DefaultServices[1].id, DefaultServices[2].id, <<"1">>, <<"0", "1">>}

\* The amounts of payments
Amounts == {20, 25, 35}

\* Search texts: none, and one that some rows match
Queries == {<<>>, <<"a">>}

\* Offsets and limits of the page calls
Offsets == {0, 1}

Limits == {1, 10}

(***************************************************************************)
(* Calls of the query revision                                             *)
(***************************************************************************)
\* Whether the run may make a call that changes the database or not.
Budget(changed) == changed => writes < MaxWrites

\* Whether the table may hand out one more id.
Room(name) == NextId(store, name) <= MaxId

\* No call is under way.
NoCall == [fn |-> "", args |-> <<>>]

NoReturn == [raised |-> None, error |-> None, value |-> <<>>, lastrowid |-> <<>>]

\* A query function was called and came back with r.
QueryCall(fn, args, r) ==
    /\ call = NoCall
    /\ store' = r.store
    /\ call' = [fn |-> fn, args |-> args]
    /\ ret' = [raised |-> r.raised, error |-> r.error, value |-> r.value,
               lastrowid |-> r.lastrowid]
    /\ emitted' = IF r.updated THEN <<"database_updated">> ELSE <<>>
    /\ Budget(r.store # store)
    /\ writes' = IF r.store # store THEN writes + 1 ELSE writes
    /\ UNCHANGED <<db, model, logged_in_as_user, ui>>

\* A handler of a widget called a query function that came back with r, and
\* left the widgets as u.
UiCall(fn, args, r, u) ==
    /\ call = NoCall
    /\ store' = r.store
    /\ ui' = u
    /\ call' = [fn |-> fn, args |-> args]
    /\ ret' = [raised |-> r.raised, error |-> r.error, value |-> r.value,
               lastrowid |-> r.lastrowid]
    /\ emitted' = IF r.updated THEN <<"database_updated">> ELSE <<>>
    /\ Budget(r.store # store)
    /\ writes' = IF r.store # store THEN writes + 1 ELSE writes
    /\ UNCHANGED <<db, model, logged_in_as_user>>

\* The create functions
QueryCreates ==
    /\ store # Closed
    /\ \/ \E p \in PersonInputs :
            /\ Room("Person")
            /\ QueryCall("create_person", p,
                   create_person(store, p.username, p.first_name, p.last_name, p.email,
                                 p.phone_number, p.hashed_password))
       \/ \E p \in PropertyInputs :
            /\ Room("Property")
            /\ QueryCall("create_property", p,
                   create_property(store, p.street_address, p.city, p.state, p.post_code))
       \/ \E property_id \in Ids, person_id \in Ids :
            /\ Room("Booking")
            /\ QueryCall("create_booking",
                   [property_id |-> property_id, person_id |-> person_id,
                    booking_date |-> Date(1)],
                   create_booking(store, property_id, person_id, Date(1)))
       \/ \E p \in ServiceInputs :
            /\ QueryCall("create_service", p,
                   create_service(store, p.id, p.description, p.price))
       \/ \E booking_id \in Ids, service_id \in ServiceIds :
            /\ Room("BookingService")
            /\ QueryCall("create_booking_service",
                   [booking_id |-> booking_id, service_id |-> service_id, duration |-> 60],
                   create_booking_service(store, booking_id, service_id, 60))
       \/ \E booking_id \in Ids, amount \in Amounts :
            /\ Room("Payment")
            /\ QueryCall("create_payment",
                   [booking_id |-> booking_id, amount |-> amount, payment_date |-> Date(2)],
                   create_payment(store, booking_id, amount, Date(2)))

\* The delete functions
QueryDeletes ==
    /\ store # Closed
    /\ \/ \E id \in Ids :
            QueryCall("delete_person", [id |-> id], delete_person(store, id))
       \/ \E id \in Ids :
            QueryCall("delete_property", [id |-> id], delete_property(store, id))
       \/ \E id \in Ids :
            QueryCall("delete_booking", [id |-> id], delete_booking(store, id))
       \/ \E id \in ServiceIds :
            QueryCall("delete_service", [id |-> id], delete_service(store, id))
       \/ \E booking_id \in Ids, service_id \in ServiceIds :
            QueryCall("delete_booking_service",
                      [booking_id |-> booking_id, service_id |-> service_id],
                      delete_booking_service(store, booking_id, service_id))
       \/ \E id \in Ids :
            QueryCall("delete_payment", [id |-> id], delete_payment(store, id))

\* The functions that read one record by its id
QueryGets ==
    /\ store # Closed
    /\ \/ \E id \in Ids :
            QueryCall("get_person_by_id", [id |-> id], get_person_by_id(store, id))
       \/ \E id \in Ids :
            QueryCall("get_property_by_id", [id |-> id], get_property_by_id(store, id))
       \/ \E id \in Ids :
            QueryCall("get_booking_by_id", [id |-> id], get_booking_by_id(store, id))
       \/ \E id \in ServiceIds :
            QueryCall("get_service_by_id", [id |-> id], get_service_by_id(store, id))
       \/ \E id \in Ids :
            QueryCall("get_payment_by_id", [id |-> id], get_payment_by_id(store, id))

\* The count functions
QueryCounts ==
    /\ store # Closed
    /\ \/ QueryCall("get_person_count", <<>>, get_person_count(store))
       \/ QueryCall("get_property_count", <<>>, get_property_count(store))
       \/ QueryCall("get_booking_count", <<>>, get_booking_count(store))
       \/ QueryCall("get_service_count", <<>>, get_service_count(store))
       \/ \E id \in Ids :
            QueryCall("get_service_count_by_booking", [booking_id |-> id],
                      get_service_count_by_booking(store, id))
       \/ \E id \in Ids :
            QueryCall("get_payment_count", [booking_id |-> id],
                      get_payment_count(store, id))

\* The page functions
QueryPages ==
    /\ store # Closed
    /\ \E offset \in Offsets, limit \in Limits :
        LET args == [offset |-> offset, limit |-> limit]
        IN \/ QueryCall("get_person_page", args, get_person_page(store, offset, limit))
           \/ QueryCall("get_property_page", args, get_property_page(store, offset, limit))
           \/ QueryCall("get_booking_page", args, get_booking_page(store, offset, limit))
           \/ QueryCall("get_service_page", args, get_service_page(store, offset, limit))
           \/ \E id \in Ids :
                QueryCall("get_service_page_by_booking",
                          [booking_id |-> id, offset |-> offset, limit |-> limit],
                          get_service_page_by_booking(store, id, offset, limit))
           \/ \E id \in Ids :
                QueryCall("get_payment_page",
                          [booking_id |-> id, offset |-> offset, limit |-> limit],
                          get_payment_page(store, id, offset, limit))

\* The search functions
QuerySearches ==
    /\ store # Closed
    /\ \E query \in Queries, offset \in Offsets, limit \in Limits :
        LET args == [query |-> query, offset |-> offset, limit |-> limit]
        IN \/ QueryCall("search_persons", args,
                        search_persons(store, query, offset, limit))
           \/ QueryCall("search_properties", args,
                        search_properties(store, query, offset, limit))
           \/ QueryCall("search_bookings", args,
                        search_bookings(store, query, offset, limit))
           \/ QueryCall("search_services", args,
                        search_services(store, query, offset, limit))
           \/ \E id \in Ids :
                QueryCall("search_services_by_booking",
                          [booking_id |-> id, query |-> query, offset |-> offset,
                           limit |-> limit],
                          search_services_by_booking(store, id, query, offset, limit))
           \/ \E id \in Ids :
                QueryCall("search_payments",
                          [booking_id |-> id, query |-> query, offset |-> offset,
                           limit |-> limit],
                          search_payments(store, id, query, offset, limit))

\* The aggregates of a booking
QueryTotals ==
    /\ store # Closed
    /\ \E id \in Ids :
        \/ QueryCall("get_booking_cost", [booking_id |-> id], get_booking_cost(store, id))
        \/ QueryCall("get_payment_totals_by_booking", [booking_id |-> id],
                     get_payment_totals_by_booking(store, id))

\* Result.one(): the value if it is exactly one, else None
one(result) == IF Len(result.value) = 1 THEN <<result.value[1]>> ELSE <<>>

\* query.login_person called on its own
Login ==
    /\ store # Closed
    /\ \E username \in Usernames, password \in Passwords :
        QueryCall("login_person", [username |-> username, password |-> password],
                  login_person(store, username, hash_plaintext(password)))

\* The page size that TableView passes and divides by.
PageSize == 10

\* TableView.update with update_table on the people table: the page at
\* current_page of the search, and the count of the whole table.
TableView_update(t, s) ==
    [t EXCEPT !.rowCount = Len(search_persons(s, t.search, t.current_page * PageSize,
                                              PageSize).value),
              !.cached_count = one(get_person_count(s))[1]]

\* TableView.refresh
TableView_refresh(t, s) == TableView_update([t EXCEPT !.current_page = 0], s)

\* TableView.on_search_text_changed, with the text that the line edit now holds
TableView_on_search_text_changed(t, s, text) ==
    TableView_update([t EXCEPT !.current_page = 0, !.search = text], s)

\* TableView.go_to_previous_page
TableView_go_to_previous_page(t, s) ==
    LET counted == [t EXCEPT !.cached_count = one(get_person_count(s))[1]]
    IN IF counted.current_page > 0
       THEN TableView_update([counted EXCEPT !.current_page = @ - 1], s)
       ELSE counted

\* TableView.go_to_next_page
TableView_go_to_next_page(t, s) ==
    LET counted == [t EXCEPT !.cached_count = one(get_person_count(s))[1]]
    IN IF counted.current_page < counted.cached_count \div PageSize
       THEN TableView_update([counted EXCEPT !.current_page = @ + 1], s)
       ELSE counted

\* TableView.__init__ of the people table: page 0, no search text, and update
TableView_init(s) ==
    LET new == [current_page |-> 0, search |-> <<>>, rowCount |-> 0, cached_count |-> 0]
    IN IF s = Closed THEN new ELSE TableView_update(new, s)

\* BookingServiceManagement.update_booking_list with on_booking_selected: the
\* selection is dropped if its booking is not read back, and selected again
\* if it is.
BookingServiceManagement_update_booking_list(u, s) ==
    IF u.booking_id = <<>> THEN u
    ELSE LET booking == one(get_booking_by_id(s, u.booking_id[1]))
         IN IF booking = <<>> THEN [u EXCEPT !.booking_id = <<>>]
            ELSE [u EXCEPT !.booking_id = <<booking[1].id>>]

\* ClientBookingView.handle_date_selected: for each booking of the client on
\* the date that has services, the remaining payment and whether its Add
\* Payment button is enabled.
ClientBookingView_handle_date_selected(u, s, date) ==
    LET services == get_services_person_and_date(s, u.client[1].id, date, date).value
        bookings == {services[i].booking_id : i \in 1..Len(services)}
        remaining(b) == one(get_booking_cost(s, b))[1].total
                        - one(get_payment_totals_by_booking(s, b))[1].total_amount
    IN [u EXCEPT !.selected_date = <<date>>,
                 !.details = [b \in bookings |->
                     [remaining_payment |-> remaining(b), enabled |-> ~(remaining(b) <= 0)]]]

\* ClientBookingView.update_calendar, with clear_details
ClientBookingView_update_calendar(u, s) ==
    IF u.selected_date # <<>>
    THEN ClientBookingView_handle_date_selected(u, s, u.selected_date[1])
    ELSE [u EXCEPT !.details = <<>>]

\* The slots connected to database.database_updated, run on the database
\* as the statement left it.
database_updated(u, s) ==
    ClientBookingView_update_calendar(
        BookingServiceManagement_update_booking_list(
            [u EXCEPT !.people_table = TableView_update(@, s)], s), s)

\* The widgets after execute emitted database_updated, or did not.
Notified(u, r) == IF r.updated THEN database_updated(u, r.store) ELSE u

\* The tabs of Ui.tab_widget by index: TAB_STATS to TAB_MANAGE_ROSTER are for
\* employees, TAB_CLIENT_BOOKINGS for clients.
EmployeeTabs == 0..5

ClientTabs == {6}

\* A faulty handle_state that leaves the client tab visible for everybody; the
\* visibility property distinguishes it from the method below.
handle_state_client_tab_for_all(u, user) ==
    IF user = <<>>
    THEN [u EXCEPT !.login_frame = TRUE, !.centralWidget = FALSE]
    ELSE [u EXCEPT !.login_frame = FALSE, !.centralWidget = TRUE,
                   !.tab_widget = [t \in DOMAIN @ |->
                        IF t \in EmployeeTabs THEN user[1].is_employee ELSE TRUE]]

\* Ui.handle_state: setVisible of the login frame and of the central widget,
\* setTabVisible of the seven tabs. Logged out, it returns before the tabs.
handle_state(u, user) ==
    IF user = <<>>
    THEN [u EXCEPT !.login_frame = TRUE, !.centralWidget = FALSE]
    ELSE [u EXCEPT !.login_frame = FALSE, !.centralWidget = TRUE,
                   !.tab_widget = [t \in DOMAIN @ |->
                        IF t \in EmployeeTabs THEN user[1].is_employee
                        ELSE ~user[1].is_employee]]

\* Ui.__init__ without user and password, on the database s: the login frame
\* and the central widget are new, every tab is as addTab leaves it with its
\* widget constructed, and handle_state has run.
Ui_init(s) ==
    handle_state([login_frame |-> FALSE, centralWidget |-> TRUE,
                  tab_widget |-> [t \in EmployeeTabs \cup ClientTabs |-> TRUE],
                  people_table |-> TableView_init(s),
                  booking_id |-> <<>>,
                  client |-> <<>>, selected_date |-> <<>>, details |-> <<>>,
                  payment_dialogs |-> <<>>],
                 <<>>)

\* Ui.handle_login
handle_login ==
    /\ store # Closed
    /\ call = NoCall
    /\ \E username \in Usernames, password \in Passwords :
        LET result == login_person(store, username, hash_plaintext(password))
        IN /\ call' = [fn |-> "handle_login",
                       args |-> [username |-> username, password |-> password]]
           /\ ret' = [raised |-> result.raised, error |-> result.error,
                      value |-> result.value, lastrowid |-> result.lastrowid]
           /\ logged_in_as_user' = IF result.error # None THEN logged_in_as_user
                                   ELSE one(result)
           /\ ui' = handle_state(
                        IF result.error = None /\ one(result) # <<>>
                        THEN [ui EXCEPT !.client = one(result)] ELSE ui,
                        logged_in_as_user')
           /\ emitted' = <<>>
           /\ UNCHANGED <<store, db, model, writes>>

\* Ui.handle_logout
handle_logout ==
    /\ store # Closed
    /\ call = NoCall
    /\ logged_in_as_user' = <<>>
    /\ ui' = handle_state(ui, logged_in_as_user')
    /\ call' = [fn |-> "handle_logout", args |-> <<>>]
    /\ ret' = [raised |-> None, error |-> None, value |-> <<>>, lastrowid |-> <<>>]
    /\ emitted' = <<>>
    /\ UNCHANGED <<store, db, model, writes>>

\* A handler that returned before it called the data layer.
Returned_early(s) ==
    [raised |-> None, error |-> None, value |-> <<>>, lastrowid |-> <<>>,
     store |-> s, updated |-> FALSE]

\* A rank_person that also changes the rank of the admin; the admin property
\* distinguishes it from the handler below.
PersonManagement_rank_person_of_anyone(s, person) ==
    IF person.is_employee THEN set_person_customer(s, person.id)
    ELSE set_person_employee(s, person.id)

\* PersonManagement.rank_person
PersonManagement_rank_person(s, person) ==
    IF person.id = 1 THEN Returned_early(s)
    ELSE IF person.is_employee THEN set_person_customer(s, person.id)
    ELSE set_person_employee(s, person.id)

\* PersonManagement.delete_person
PersonManagement_delete_person(s, person) ==
    IF person.id = 1 THEN Returned_early(s)
    ELSE delete_person(s, person.id)

\* The Person records that the people table can hold: a row as it is or as it
\* was when the table was last loaded.
ShownPersons == [id : Ids, is_employee : BOOLEAN]

\* The context menu and the buttons of PersonManagement. After a delete that
\* did not fail the people table is refreshed, after a change of rank or a
\* fake person it is updated; every statement that changed a row has
\* notified the widgets before.
PersonManagement ==
    /\ store # Closed
    /\ \/ \E person \in ShownPersons :
            LET r == PersonManagement_delete_person(store, person)
            IN UiCall("PersonManagement.delete_person", person, r,
                   IF person.id = 1 \/ r.error # None THEN Notified(ui, r)
                   ELSE [Notified(ui, r) EXCEPT
                            !.people_table = TableView_refresh(@, r.store)])
       \/ \E person \in ShownPersons :
            LET r == PersonManagement_rank_person(store, person)
            IN UiCall("PersonManagement.rank_person", person, r,
                   IF person.id = 1 \/ r.error # None THEN Notified(ui, r)
                   ELSE [Notified(ui, r) EXCEPT
                            !.people_table = TableView_update(@, r.store)])
       \/ \E p \in PersonForms :
            /\ Room("Person")
            /\ LET r == create_person(store, p.username, p.first_name, p.last_name,
                                      p.email, p.phone_number, p.hashed_password)
               IN UiCall("PersonManagement.handle_add_new_person", p, r, Notified(ui, r))

\* PersonManagement.add_fake_person
PersonManagement_add_fake_person ==
    /\ store # Closed
    /\ NextId(store, "Person") <= MaxPersons
    /\ LET p == generate_person(NextId(store, "Person"))
           r == create_person(store, p.username, p.first_name, p.last_name,
                              p.email, p.phone_number, p.hashed_password)
       IN UiCall("PersonManagement.add_fake_person", p, r,
              IF r.error # None THEN Notified(ui, r)
              ELSE [Notified(ui, r) EXCEPT
                       !.people_table = TableView_update(@, r.store)])

\* The day that date.today() and QDate.currentDate() give.
Today == Date(2)

\* The bookings of the add dialog: the customer and the property picked or
\* left at the placeholder -1, the date of yesterday or of today.
BookingForms ==
    [id : {-1}, person_id : {-1, 1}, property_id : {-1, 1}, booking_date : {Date(1), Today}]

\* A faulty handle_add_new_booking_done that leaves the selection as it was;
\* the selection property distinguishes it from the handler below.
BookingServiceManagement_handle_add_new_booking_done_unselected(u, s, booking) ==
    IF \/ booking.booking_date.date < Today.date
       \/ booking.person_id < 0
       \/ booking.property_id < 0
    THEN [r |-> Returned_early(s), ui |-> u]
    ELSE LET res == create_booking(s, booking.property_id, booking.person_id,
                                   booking.booking_date)
         IN [r |-> res, ui |-> Notified(u, res)]

\* BookingServiceManagement.handle_add_new_booking_done of an accepted dialog:
\* the envelope of create_booking, and the widgets with the new booking
\* selected if one was created. A ValueError is caught.
BookingServiceManagement_handle_add_new_booking_done(u, s, booking) ==
    IF \/ booking.booking_date.date < Today.date
       \/ booking.person_id < 0
       \/ booking.property_id < 0
    THEN [r |-> Returned_early(s), ui |-> u]
    ELSE LET res == create_booking(s, booking.property_id, booking.person_id,
                                   booking.booking_date)
         IN [r |-> res,
             ui |-> IF res.lastrowid # <<>>
                    THEN BookingServiceManagement_update_booking_list(
                             [Notified(u, res) EXCEPT !.booking_id = res.lastrowid],
                             res.store)
                    ELSE Notified(u, res)]

\* What a handler that called two query functions in turn hands back: the
\* envelope of the second, and whether either notified the widgets.
Then(r1, r2) == [r2 EXCEPT !.updated = r1.updated \/ r2.updated]

\* BookingServiceManagement.delete_booking on the selected booking: the
\* services of the booking are deleted, then the booking, whatever the first
\* statement returned.
BookingServiceManagement_delete_booking(s, booking_id) ==
    Then(delete_bookings_services(s, booking_id),
         delete_booking(delete_bookings_services(s, booking_id).store, booking_id))

\* BookingServiceManagement.handle_add_new_service_done of an accepted dialog:
\* nothing is created if the service is read back as attached, or the
\* booking id is negative, the service id empty or the duration not positive.
BookingServiceManagement_handle_add_new_service_done(s, service) ==
    LET existing_service == get_service_by_booking_and_service(
                                s, service.booking_id, service.service_id)
    IN IF one(existing_service) # <<>> THEN Returned_early(s)
       ELSE IF service.booking_id < 0 THEN Returned_early(s)
       ELSE IF service.service_id = <<>> THEN Returned_early(s)
       ELSE IF service.duration <= 0 THEN Returned_early(s)
       ELSE create_booking_service(s, service.booking_id, service.service_id,
                                   service.duration)

\* The durations typed into the dialog: none, and the 30 minutes it proposes.
Durations == {0, 30}

\* The booking list and the buttons of BookingServiceManagement
BookingServiceManagement ==
    /\ store # Closed
    /\ \/ \E booking_id \in DOMAIN store.Booking :
            UiCall("BookingServiceManagement.on_booking_selected",
                   [booking_id |-> booking_id], Returned_early(store),
                   [ui EXCEPT !.booking_id = <<booking_id>>])
       \/ IF ui.booking_id = <<>>
          THEN UiCall("BookingServiceManagement.delete_booking",
                      [booking_id |-> <<>>], Returned_early(store), ui)
          ELSE LET r1 == delete_bookings_services(store, ui.booking_id[1])
                   r2 == delete_booking(r1.store, ui.booking_id[1])
                   notified == Notified(Notified(ui, r1), r2)
               IN UiCall("BookingServiceManagement.delete_booking",
                         [booking_id |-> ui.booking_id],
                         BookingServiceManagement_delete_booking(store, ui.booking_id[1]),
                         [notified EXCEPT !.booking_id = <<>>])
       \/ \E booking \in BookingForms :
            /\ Room("Booking")
            /\ LET done == BookingServiceManagement_handle_add_new_booking_done(
                               ui, store, booking)
               IN UiCall("BookingServiceManagement.handle_add_new_booking_done",
                         booking, done.r, done.ui)
       \/ \E service_id \in ServiceIds \cup {<<>>}, duration \in Durations :
            /\ ui.booking_id # <<>>
            /\ Room("BookingService")
            /\ LET service == [id |-> -1, booking_id |-> ui.booking_id[1],
                               service_id |-> service_id, duration |-> duration,
                               completed |-> FALSE]
                   r == BookingServiceManagement_handle_add_new_service_done(store, service)
               IN UiCall("BookingServiceManagement.handle_add_new_service_done",
                         service, r, Notified(ui, r))

\* The payment dialogs that the model lets be open at once.
MaxDialogs == 2

\* ClientBookingView.add_payment with create_modal_floating: a dialog that is
\* not modal, with the amount limited to the remaining payment of the button
ClientBookingView_add_payment(u, booking_id, remaining_payment) ==
    [u EXCEPT !.payment_dialogs = Append(@,
        [booking_id |-> booking_id, remaining_payment |-> remaining_payment])]

\* ClientBookingView.handle_payment_done of an accepted dialog
ClientBookingView_handle_payment_done(s, payment) ==
    create_payment(s, payment.booking_id, payment.amount, payment.payment_date)

\* The sequence without its i-th element.
Closing(dialogs, i) == SubSeq(dialogs, 1, i - 1) \o SubSeq(dialogs, i + 1, Len(dialogs))

\* The calendar, the Add Payment buttons and the payment dialogs of
\* ClientBookingView
ClientBookingView ==
    /\ store # Closed
    /\ ui.client # <<>>
    /\ \/ \E date \in {Today, Date(3)} :
            UiCall("ClientBookingView.handle_date_selected", [date |-> date],
                   Returned_early(store),
                   ClientBookingView_handle_date_selected(ui, store, date))
       \/ \E b \in DOMAIN ui.details :
            /\ ui.details[b].enabled
            /\ Len(ui.payment_dialogs) < MaxDialogs
            /\ UiCall("ClientBookingView.add_payment", [booking_id |-> b],
                      Returned_early(store),
                      ClientBookingView_add_payment(ui, b, ui.details[b].remaining_payment))
       \/ \E i \in DOMAIN ui.payment_dialogs, success \in BOOLEAN, amount \in Amounts :
            /\ amount <= ui.payment_dialogs[i].remaining_payment
            /\ LET closed == [ui EXCEPT !.payment_dialogs = Closing(@, i)]
                   payment == [id |-> -1, booking_id |-> ui.payment_dialogs[i].booking_id,
                               amount |-> amount, payment_date |-> Today]
                   r == IF success THEN ClientBookingView_handle_payment_done(store, payment)
                        ELSE Returned_early(store)
               IN /\ Room("Payment")
                  /\ UiCall("ClientBookingView.handle_payment_done",
                            [success |-> success, payment |-> payment], r,
                            [Notified(ui, r) EXCEPT !.payment_dialogs = Closing(@, i)])

\* The services typed into the dialog of ServiceManagement: the two numerals,
\* a seeded id under another price, and a new id with the prices 0 and 15.
ServiceForms ==
    ServiceInputs \cup
    {[id |-> DefaultServices[1].id, description |-> <<"M", "o", "w">>, price |-> 5],
     [id |-> <<"e", "d", "g", "e">>, description |-> <<"E", "d", "g", "e">>, price |-> 0],
     [id |-> <<"e", "d", "g", "e">>, description |-> <<"E", "d", "g", "e">>, price |-> 15]}

\* A faulty handle_add_new_service without the test of the price; the service
\* property distinguishes it from the handler below.
ServiceManagement_handle_add_new_service_unpriced(s, service) ==
    IF one(get_service_by_id(s, service.id)) # <<>> THEN Returned_early(s)
    ELSE create_service(s, service.id, service.description, service.price)

\* ServiceManagement.handle_add_new_service of an accepted dialog: a ValueError
\* for an id that is read back or a price that is not positive, caught
ServiceManagement_handle_add_new_service(s, service) ==
    IF one(get_service_by_id(s, service.id)) # <<>> THEN Returned_early(s)
    ELSE IF service.price <= 0 THEN Returned_early(s)
    ELSE create_service(s, service.id, service.description, service.price)

\* The dialog and the context menu of ServiceManagement
ServiceManagement ==
    /\ store # Closed
    /\ \/ \E service \in ServiceForms :
            LET r == ServiceManagement_handle_add_new_service(store, service)
            IN UiCall("ServiceManagement.handle_add_new_service", service, r,
                      Notified(ui, r))
       \/ \E id \in ServiceIds \cup {<<"e", "d", "g", "e">>} :
            LET r == delete_service(store, id)
            IN UiCall("ServiceManagement.delete_service", [id |-> id], r, Notified(ui, r))

\* The buttons and the search line of a TableView, here the people table
TableView ==
    /\ store # Closed
    /\ \/ UiCall("TableView.go_to_next_page", <<>>, Returned_early(store),
                  [ui EXCEPT !.people_table = TableView_go_to_next_page(@, store)])
       \/ UiCall("TableView.go_to_previous_page", <<>>, Returned_early(store),
                  [ui EXCEPT !.people_table = TableView_go_to_previous_page(@, store)])
       \/ UiCall("TableView.refresh", <<>>, Returned_early(store),
                  [ui EXCEPT !.people_table = TableView_refresh(@, store)])
       \/ \E text \in Queries :
            UiCall("TableView.on_search_text_changed", [text |-> text],
                   Returned_early(store),
                   [ui EXCEPT !.people_table =
                        TableView_on_search_text_changed(@, store, text)])

\* RosterView.handle_add_person_done: the roster of the dialog is added if its
\* person is found and is an employee
RosterView_handle_add_person_done(s, roster) ==
    LET person == one(get_person_by_id(s, roster.person_id))
    IN IF roster.person_id < 0 THEN Returned_early(s)
       ELSE IF person = <<>> THEN Returned_early(s)
       ELSE IF ~person[1].is_employee THEN Returned_early(s)
       ELSE create_roster(s, roster.person_id, roster.booking_service_id)

\* RosterView.remove_person
RosterView_remove_person(s, person, service) == delete_roster(s, person.id, service.id)

\* The dialog and the remove button of RosterView
RosterView ==
    /\ store # Closed
    /\ \/ \E person_id \in Ids \cup {-1}, booking_service_id \in Ids :
            /\ Room("Roster")
            /\ LET roster == [id |-> -1, person_id |-> person_id,
                              booking_service_id |-> booking_service_id]
               IN QueryCall("RosterView.handle_add_person_done", roster,
                            RosterView_handle_add_person_done(store, roster))
       \/ \E person_id \in Ids, booking_service_id \in Ids :
            QueryCall("RosterView.remove_person",
                      [person_id |-> person_id, booking_service_id |-> booking_service_id],
                      RosterView_remove_person(store, [id |-> person_id],
                                               [id |-> booking_service_id]))

\* The number of rows in the tables of the query revision.
RowCount(s) ==
    Cardinality(DOMAIN s.Person) + Cardinality(DOMAIN s.Property)
    + Cardinality(DOMAIN s.Booking) + Cardinality(DOMAIN s.Service)
    + Cardinality(DOMAIN s.BookingService) + Cardinality(DOMAIN s.Payment)
    + Cardinality(DOMAIN s.Roster)

\* The scripts run on the open database: the factory reset, and the startup
\* of the next run of the program.
Scripts ==
    /\ store # Closed
    /\ LET args == [rows |-> RowCount(store),
                    rosters |-> Cardinality(DOMAIN store.Roster)]
           done(s, error) == [raised |-> None, error |-> error, value |-> <<>>,
                              lastrowid |-> <<>>, store |-> s, updated |-> FALSE]
       IN \/ QueryCall("reset", args, done(Reset(store).store, Reset(store).error))
          \/ QueryCall("startup", args, done(Startup(store), None))

\* BookingServiceManagement.right_panel_update, the status label: Done if
\* completed equals total, In Progress if not
right_panel_update(s, booking_id) ==
    LET result == get_completed_service_count_by_booking(s, booking_id)
        completion == one(result)
    IN [result EXCEPT !.value =
           IF completion # <<>>
           THEN <<[status |-> IF completion[1].completed = completion[1].total
                              THEN "Done" ELSE "In Progress",
                   completed |-> completion[1].completed,
                   total |-> completion[1].total]>>
           ELSE <<[status |-> "No services found"]>>]

\* The completion of the services of a booking: toggled, counted and shown
QueryCompletion ==
    /\ store # Closed
    /\ \/ \E booking_id \in Ids, service_id \in ServiceIds :
            QueryCall("toggle_completion_booking_service",
                      [booking_id |-> booking_id, service_id |-> service_id],
                      toggle_completion_booking_service(store, booking_id, service_id))
       \/ \E booking_id \in Ids :
            QueryCall("get_completed_service_count_by_booking",
                      [booking_id |-> booking_id],
                      get_completed_service_count_by_booking(store, booking_id))
       \/ \E booking_id \in DOMAIN store.Booking :
            QueryCall("right_panel_update", [booking_id |-> booking_id],
                      right_panel_update(store, booking_id))

\* Control is back in the event loop: the handler that made the last call has
\* finished with what it returned, and the next event can be handled.
mainloop ==
    /\ call # NoCall
    /\ call' = NoCall
    /\ ret' = NoReturn
    /\ model' = <<>>
    /\ emitted' = <<>>
    /\ UNCHANGED <<store, db, logged_in_as_user, ui, writes>>

(***************************************************************************)
(* Calls of the class revision                                             *)
(***************************************************************************)
\* The ids of models: transient, or one of the first two that a table hands out.
ModelIds == {-1, 1, 2}

\* datetime(2024, 1, 2, 3, 4, 5)
When == [cls |-> "datetime", txt |-> "2024-01-02 03:04:05"]

\* The models that callers pass, by kind.
Models(kind) ==
    CASE kind = "Customer" ->
            {[id |-> id, first_name |-> first_name, last_name |-> "Lee",
              email |-> "ann@b.c", phone |-> "555"] :
                id \in ModelIds, first_name \in {"Ann", "Bea"}}
      [] kind = "Property" ->
            {[id |-> id, street_number |-> 1, unit |-> "", street_name |-> "Elm",
              city |-> "Perth", post_code |-> 6000] : id \in ModelIds}
      [] kind = "Booking" ->
            {[id |-> id, customer_id |-> customer_id, property_id |-> 1, when |-> When] :
                id \in ModelIds, customer_id \in ModelIds}
      [] kind = "Service" ->
            {[id |-> id, name |-> "Mow", base_price |-> base_price] :
                id \in ModelIds, base_price \in {50, 30}}
      [] kind = "Payment" ->
            {[id |-> id, booking_id |-> booking_id, amount |-> amount,
              payment_date |-> When] :
                id \in ModelIds, booking_id \in {-1, 1}, amount \in Amounts}

\* The BookingServiceModel objects that callers pass.
BookingServiceModels ==
    {[booking_id |-> booking_id, service_id |-> service_id, completed |-> completed] :
        booking_id \in ModelIds, service_id \in ModelIds, completed \in BOOLEAN}

\* Whether a call with the model of a kind keeps the ids within MaxId.
DatabaseRoom(kind, m) ==
    /\ IF is_transient(kind, m) THEN NextId(db, kind) <= MaxId ELSE TRUE

\* A method of Database was called and came back with r.
DatabaseCall(fn, args, r) ==
    /\ call = NoCall
    /\ db' = r.db
    /\ model' = r.model
    /\ call' = [fn |-> fn, args |-> args]
    /\ ret' = [raised |-> r.raised, error |-> None, value |-> r.value,
               lastrowid |-> <<>>]
    /\ emitted' = r.emitted
    /\ Budget(r.db # db)
    /\ writes' = IF r.db # db THEN writes + 1 ELSE writes
    /\ UNCHANGED <<store, logged_in_as_user, ui>>

\* add_customer, add_property, add_booking, add_service, create_payment,
\* add_booking_service
DatabaseAdds ==
    /\ db # Closed
    /\ \/ \E kind \in Kinds : \E m \in Models(kind) :
            /\ DatabaseRoom(kind, m)
            /\ DatabaseCall("add", [kind |-> kind, model |-> m], Database_add(db, kind, m))
       \/ \E m \in BookingServiceModels :
            /\ DatabaseCall("add_booking_service", [model |-> m],
                            Database_add_booking_service(db, m))

\* add_or_update_customer and its namesakes, add_or_update_booking_service
DatabaseUpserts ==
    /\ db # Closed
    /\ \/ \E kind \in Kinds : \E m \in Models(kind) :
            /\ DatabaseRoom(kind, m)
            /\ DatabaseCall("add_or_update", [kind |-> kind, model |-> m],
                            Database_add_or_update(db, kind, m))
       \/ \E m \in BookingServiceModels :
            /\ DatabaseCall("add_or_update_booking_service", [model |-> m],
                            Database_add_or_update_booking_service(db, m))

\* remove_customer_by_id and its namesakes, remove_customer and its namesakes,
\* remove_booking_service_by_booking_service_id
DatabaseRemoves ==
    /\ db # Closed
    /\ \/ \E kind \in Kinds, id \in Ids :
            DatabaseCall("remove_by_id", [kind |-> kind, ids |-> <<id>>],
                         Database_remove_by_id(db, kind, <<id>>))
       \/ \E kind \in Kinds : \E m \in Models(kind) :
            DatabaseCall("remove", [kind |-> kind, model |-> m],
                         Database_remove(db, kind, m))
       \/ \E booking_id \in Ids, service_id \in Ids :
            DatabaseCall("remove_booking_service_by_booking_service_id",
                [booking_id |-> booking_id, service_id |-> service_id],
                Database_remove_booking_service_by_booking_service_id(
                    db, booking_id, service_id))

\* get_customer_by_id, get_all_customers, get_num_customer_pages and their
\* namesakes, get_booking_service_by_booking_id_and_service_id
DatabaseReads ==
    /\ db # Closed
    /\ \/ \E kind \in Kinds, id \in Ids :
            DatabaseCall("get_by_id", [kind |-> kind, id |-> id],
                         Database_get_by_id(db, kind, id))
       \/ \E kind \in Kinds, page \in {1, 2}, page_size \in Limits :
            DatabaseCall("get_all", [kind |-> kind, page |-> page, page_size |-> page_size],
                         Database_get_all(db, kind, page, page_size))
       \/ \E kind \in Kinds, page_size \in Limits :
            DatabaseCall("get_num_pages", [kind |-> kind, page_size |-> page_size],
                         Database_get_num_pages(db, kind, page_size))
       \/ \E booking_id \in Ids, service_id \in Ids :
            DatabaseCall("get_booking_service_by_booking_id_and_service_id",
                [booking_id |-> booking_id, service_id |-> service_id],
                Database_get_booking_service_by_booking_id_and_service_id(
                    db, booking_id, service_id))

\* booking_get_paid_total_cost, booking_has_pending_payments
DatabaseTotals ==
    /\ db # Closed
    /\ \E id \in Ids :
        \/ DatabaseCall("booking_get_paid_total_cost", [booking_id |-> id],
                        Database_booking_get_paid_total_cost(db, id))
        \/ DatabaseCall("booking_has_pending_payments", [booking_id |-> id],
                        Database_booking_has_pending_payments(db, id))

\* Database.is_booking_completed
DatabaseCompletion ==
    /\ db # Closed
    /\ \E id \in Ids :
        DatabaseCall("is_booking_completed", [booking_id |-> id],
                     Database_is_booking_completed(db, id))

\* Database.reset
DatabaseResets ==
    /\ db # Closed
    /\ DatabaseCall("reset", [rows |-> Cardinality(DOMAIN db.Booking)],
                    Database_reset(db))

(***************************************************************************)
(* Databases that earlier runs left behind                                 *)
(***************************************************************************)
\* The query revision after create_property, create_booking for the admin at
\* that property, create_booking_service of the seeded services priced 50 and
\* 30, and create_payment of 20: booking 1 costs 80, of which 20 are paid.
BookedStore ==
    LET s1 == create_property(SeededStore, <<"1", " ", "E", "l", "m">>,
                  <<"P", "e", "r", "t", "h">>, <<"W", "A">>, <<"6", "0", "0", "0">>).store
        s2 == create_booking(s1, 1, 1, Date(1)).store
        s3 == create_booking_service(s2, 1, DefaultServices[1].id, 60).store
        s4 == create_booking_service(s3, 1, DefaultServices[2].id, 60).store
    IN create_payment(s4, 1, 20, Date(2)).store

\* The query revision after create_property, create_booking and create_service
\* of the two numeral ids.
NumeralStore ==
    LET s1 == create_property(SeededStore, <<"1", " ", "E", "l", "m">>,
                  <<"P", "e", "r", "t", "h">>, <<"W", "A">>, <<"6", "0", "0", "0">>).store
        s2 == create_booking(s1, 1, 1, Date(1)).store
        s3 == create_service(s2, <<"1">>, <<"O", "n", "e">>, 10).store
    IN create_service(s3, <<"0", "1">>, <<"Z", "e", "r", "o">>, 20).store

\* The class revision after add_customer, add_property, add_booking, add_service
\* of prices 50 and 30, add_booking_service of both and create_payment of 20.
BookedDatabase ==
    LET d1 == Database_add(NewDatabase, "Customer",
                  [id |-> -1, first_name |-> "Ann", last_name |-> "Lee",
                   email |-> "ann@b.c", phone |-> "555"]).db
        d2 == Database_add(d1, "Property",
                  [id |-> -1, street_number |-> 1, unit |-> "", street_name |-> "Elm",
                   city |-> "Perth", post_code |-> 6000]).db
        d3 == Database_add(d2, "Booking",
                  [id |-> -1, customer_id |-> 1, property_id |-> 1, when |-> When]).db
        d4 == Database_add(d3, "Service", [id |-> -1, name |-> "Mow", base_price |-> 50]).db
        d5 == Database_add(d4, "Service", [id |-> -1, name |-> "Mow", base_price |-> 30]).db
        d6 == Database_add_booking_service(d5,
                  [booking_id |-> 1, service_id |-> 1, completed |-> FALSE]).db
        d7 == Database_add_booking_service(d6,
                  [booking_id |-> 1, service_id |-> 2, completed |-> FALSE]).db
    IN Database_add(d7, "Payment",
           [id |-> -1, booking_id |-> 1, amount |-> 20, payment_date |-> When]).db

\* BookedStore after a person was added and ranked an employee and the dialog
\* of RosterView put that person on the first service of booking 1.
RosteredStore ==
    LET ann == CHOOSE p \in PersonInputs : IsEmail(p.email)
        s1 == create_person(BookedStore, ann.username, ann.first_name, ann.last_name,
                            ann.email, ann.phone_number, ann.hashed_password).store
        s2 == PersonManagement_rank_person(s1, [id |-> 2, is_employee |-> FALSE]).store
    IN RosterView_handle_add_person_done(
           s2, [id |-> -1, person_id |-> 2, booking_service_id |-> 1]).store

(***************************************************************************)
(* Specifications                                                          *)
(***************************************************************************)
\* A process of the query revision (after main: tables created and seeded,
\* nobody logged in) on one of the databases given.
InitStore(stores) ==
    /\ store \in stores
    /\ db = Closed
    /\ model = <<>>
    /\ call = NoCall
    /\ ret = NoReturn
    /\ emitted = <<>>
    /\ logged_in_as_user = <<>>
    /\ ui = Ui_init(store)
    /\ writes = 0

\* A process of the class revision (after Database()) on one of the databases given.
InitDatabase(databases) ==
    /\ store = Closed
    /\ db \in databases
    /\ model = <<>>
    /\ call = NoCall
    /\ ret = NoReturn
    /\ emitted = <<>>
    /\ logged_in_as_user = <<>>
    /\ ui = Ui_init(store)
    /\ writes = 0

\* create_person and delete_person alone
PersonWrites ==
    /\ store # Closed
    /\ \/ \E p \in PersonInputs :
            /\ Room("Person")
            /\ QueryCall("create_person", p,
                   create_person(store, p.username, p.first_name, p.last_name, p.email,
                                 p.phone_number, p.hashed_password))
       \/ \E id \in Ids :
            QueryCall("delete_person", [id |-> id], delete_person(store, id))

\* Persons and the login form.
NextPerson ==
    PersonWrites \/ QueryGets \/ Login \/ handle_login \/ handle_logout \/ mainloop

SpecPerson == InitStore({SeededStore}) /\ [][NextPerson]_vars

\* The listings of the query revision.
NextListing == QueryCreates \/ QueryCounts \/ QueryPages \/ QuerySearches \/ mainloop

SpecListing == InitStore({SeededStore, BookedStore}) /\ [][NextListing]_vars

\* Creating and deleting rows in both revisions.
NextRows ==
    QueryCreates \/ QueryDeletes \/ DatabaseAdds \/ DatabaseRemoves \/ mainloop

SpecRows ==
    /\ \/ InitStore({SeededStore, BookedStore})
       \/ InitDatabase({NewDatabase, BookedDatabase})
    /\ [][NextRows]_vars

\* Costs and payments in both revisions.
NextBilling ==
    \/ QueryCreates \/ QueryDeletes \/ QueryTotals
    \/ DatabaseAdds \/ DatabaseRemoves \/ DatabaseTotals
    \/ mainloop

SpecBilling ==
    /\ \/ InitStore({BookedStore, NumeralStore})
       \/ InitDatabase({BookedDatabase})
    /\ [][NextBilling]_vars

\* The class revision.
NextDatabase ==
    \/ DatabaseAdds \/ DatabaseUpserts \/ DatabaseRemoves \/ DatabaseReads
    \/ DatabaseTotals \/ mainloop

SpecDatabase == InitDatabase({NewDatabase, BookedDatabase}) /\ [][NextDatabase]_vars

\* The database after main and eight clicks on Add Fake Person: the admin
\* and the persons 2 to 9.
NinePersonStore ==
    [SeededStore EXCEPT
        !.Person = [id \in 1..9 |->
            IF id = 1 THEN AdminUser
            ELSE generate_person(id) @@
                 [id |-> id, is_employee |-> 0]],
        !.seq.Person = 9]

\* The people table: its buttons and search line, and the handlers of
\* PersonManagement that insert and delete rows in between.
NextTable == TableView \/ PersonManagement \/ PersonManagement_add_fake_person \/ mainloop

SpecTable == InitStore({SeededStore, NinePersonStore}) /\ [][NextTable]_vars

\* The bookings of BookingServiceManagement, with the persons and the roster
\* of the other tabs.
NextBookings == BookingServiceManagement \/ RosterView \/ PersonManagement \/ mainloop

SpecBookings ==
    InitStore({BookedStore, RosteredStore, NumeralStore}) /\ [][NextBookings]_vars

\* The query revision after Ann, a customer, was added and booked the
\* seeded services priced 50 and 30 at a property for today, and paid 20.
ClientStore ==
    LET ann == CHOOSE p \in PersonInputs : IsEmail(p.email)
        s1 == create_person(SeededStore, ann.username, ann.first_name, ann.last_name,
                            ann.email, ann.phone_number, ann.hashed_password).store
        s2 == create_property(s1, <<"1", " ", "E", "l", "m">>,
                  <<"P", "e", "r", "t", "h">>, <<"W", "A">>, <<"6", "0", "0", "0">>).store
        s3 == create_booking(s2, 1, 2, Today).store
        s4 == create_booking_service(s3, 1, DefaultServices[1].id, 60).store
        s5 == create_booking_service(s4, 1, DefaultServices[2].id, 60).store
    IN create_payment(s5, 1, 20, Today).store

\* The client view: logging in, the calendar, and the payment dialogs.
NextClient == handle_login \/ handle_logout \/ ClientBookingView \/ mainloop

SpecClient == InitStore({ClientStore}) /\ [][NextClient]_vars

\* The catalog of services and its dialog.
NextServices == ServiceManagement \/ mainloop

SpecServices == InitStore({SeededStore, NumeralStore, BookedStore}) /\ [][NextServices]_vars

\* The people table of PersonManagement and its context menu.
NextPeople == PersonManagement \/ mainloop

SpecPeople == InitStore({SeededStore}) /\ [][NextPeople]_vars

\* create_person with the persons of the form, which share user names and emails
PersonFormCreates ==
    /\ store # Closed
    /\ \E p \in PersonForms :
        /\ Room("Person")
        /\ QueryCall("create_person", p,
               create_person(store, p.username, p.first_name, p.last_name, p.email,
                             p.phone_number, p.hashed_password))

\* set_person_employee and set_person_customer called on their own
QueryRanks ==
    /\ store # Closed
    /\ \E id \in Ids :
        \/ QueryCall("set_person_employee", [id |-> id], set_person_employee(store, id))
        \/ QueryCall("set_person_customer", [id |-> id], set_person_customer(store, id))

\* Accounts: persons created, deleted and ranked through the query functions.
NextAccounts == PersonFormCreates \/ PersonWrites \/ QueryRanks \/ mainloop

SpecAccounts == InitStore({SeededStore}) /\ [][NextAccounts]_vars

\* The roster and the ranks of persons, through the handlers of the two views.
NextRoster == RosterView \/ PersonManagement \/ mainloop

SpecRoster == InitStore({BookedStore, RosteredStore}) /\ [][NextRoster]_vars

\* Rows created and deleted, and the scripts run on what they leave.
NextSchema ==
    \/ QueryCreates \/ QueryDeletes \/ QueryRanks \/ Scripts
    \/ DatabaseAdds \/ DatabaseRemoves \/ DatabaseResets
    \/ mainloop

SpecSchema ==
    /\ \/ InitStore({SeededStore, BookedStore, RosteredStore})
       \/ InitDatabase({NewDatabase, BookedDatabase})
    /\ [][NextSchema]_vars

\* The services of a booking and their completion, in both revisions.
NextCompletion ==
    \/ QueryCreates \/ QueryDeletes \/ QueryCompletion
    \/ DatabaseAdds \/ DatabaseUpserts \/ DatabaseCompletion
    \/ mainloop

SpecCompletion ==
    /\ \/ InitStore({BookedStore, NumeralStore})
       \/ InitDatabase({BookedDatabase})
    /\ [][NextCompletion]_vars

(***************************************************************************)
(* Properties                                                              *)
(***************************************************************************)
\* The read-by-id function that goes with a create function of the query revision.
ReadBack(fn, id) ==
    CASE fn = "create_person" -> get_person_by_id(store, id)
      [] fn = "create_property" -> get_property_by_id(store, id)
      [] fn = "create_booking" -> get_booking_by_id(store, id)
      [] fn = "create_payment" -> get_payment_by_id(store, id)

\* C1: after a create call that assigned an id (query.create_person,
\* create_property, create_booking, create_payment returning a lastrowid;
\* Database.add_customer, add_property, add_booking, add_service, create_payment
\* of a model with id -1 returning True), reading by that id yields exactly one
\* record, each of whose fields other than id equals the input.
C1_CreateThenReadYieldsInput ==
    /\ ( /\ call.fn \in {"create_person", "create_property", "create_booking",
                         "create_payment"}
         /\ ret.lastrowid # <<>> )
       => LET got == ReadBack(call.fn, ret.lastrowid[1])
          IN /\ got.raised = None
             /\ got.error = None
             /\ Len(got.value) = 1
             /\ \A field \in DOMAIN call.args : got.value[1][field] = call.args[field]
    /\ ( /\ call.fn = "add"
         /\ call.args.model.id = -1
         /\ ret.raised = None
         /\ ret.value = TRUE )
       => LET got == Database_get_by_id(db, call.args.kind, model.id).value
          IN /\ Len(got) = 1
             /\ \A field \in DOMAIN call.args.model \ {"id"} :
                    got[1][field] = call.args.model[field]

\* The rows of Person with the username given.
Named(username) == {r \in DOMAIN store.Person : store.Person[r].username = username}

\* Whether a login call names an existing person and gives that person's password.
CorrectLogin ==
    \E r \in Named(call.args.username) :
        store.Person[r].hashed_password = hash_plaintext(call.args.password)

\* Whether a login call names an existing person and gives another password.
WrongPassword ==
    /\ Named(call.args.username) # {}
    /\ \A r \in Named(call.args.username) :
        store.Person[r].hashed_password # hash_plaintext(call.args.password)

C3_NeverRaises == ret.raised = None

\* Whether the delete call with these arguments matches no row of the database
\* it is about to run on.
MatchesNoRow(fn, args) ==
    CASE fn = "delete_person" -> args.id \notin DOMAIN store.Person
      [] fn = "delete_property" -> args.id \notin DOMAIN store.Property
      [] fn = "delete_booking" -> args.id \notin DOMAIN store.Booking
      [] fn = "delete_payment" -> args.id \notin DOMAIN store.Payment
      [] fn = "delete_service" ->
            \A r \in DOMAIN store.Service : store.Service[r].id # args.id
      [] fn = "delete_booking_service" ->
            \A r \in DOMAIN store.BookingService :
                \/ store.BookingService[r].booking_id # args.booking_id
                \/ store.BookingService[r].service_id # IntegerAffinity(args.service_id)
      [] fn = "remove_by_id" -> args.ids[1] \notin DOMAIN db[args.kind]
      [] fn = "remove_booking_service_by_booking_service_id" ->
            \A r \in DOMAIN db.BookingService :
                \/ db.BookingService[r].booking_id # args.booking_id
                \/ db.BookingService[r].service_id # args.service_id
      [] OTHER -> FALSE

QueryDeleteFunctions ==
    {"delete_person", "delete_property", "delete_booking", "delete_payment",
     "delete_service", "delete_booking_service"}

DatabaseRemoveFunctions == {"remove_by_id", "remove_booking_service_by_booking_service_id"}

\* C4: a delete by an id that matches no row leaves every table unchanged and
\* raises nothing. query.delete_* returns no error and database_updated is not
\* emitted (zero rows affected); Database.remove_*_by_id returns False, the
\* value it also returns for a failure, sets no last_error and emits no signal.
C4_DeleteOfNoRow ==
    [][ /\ call' # call
        /\ MatchesNoRow(call'.fn, call'.args)
        => /\ store' = store
           /\ db' = db
           /\ ret'.raised = None
           /\ emitted' = <<>>
           /\ call'.fn \in QueryDeleteFunctions => ret'.error = None /\ ret'.value = <<>>
           /\ call'.fn \in DatabaseRemoveFunctions => ret'.value = FALSE ]_vars

\* C4, reached: remove_customer_by_id with an id that no customer has, on a
\* table that holds a customer, returned False and emitted nothing.
C4_DeleteOfNoRow_Witness ==
    /\ call.fn = "remove_by_id"
    /\ call.args.kind = "Customer"
    /\ DOMAIN db.Customer # {}
    /\ call.args.ids[1] \notin DOMAIN db.Customer
    /\ ret.raised = None
    /\ ret.value = FALSE
    /\ emitted = <<>>

\* C4 as first stated: a delete by an id that matches no row leaves every table
\* unchanged and is not reported as an error or a failure.
C4_DeleteOfNoRowIsNoFailure ==
    [][ /\ call' # call
        /\ MatchesNoRow(call'.fn, call'.args)
        => /\ store' = store
           /\ db' = db
           /\ ret'.raised = None
           /\ call'.fn \in QueryDeleteFunctions => ret'.error = None
           /\ call'.fn \in DatabaseRemoveFunctions => ret'.value # FALSE ]_vars

\* Whether the call is an add_or_update_* with a non-transient model whose
\* primary key exists in the database it is about to run on, and whose foreign
\* keys name existing rows.
UpsertOfExisting(fn, args) ==
    CASE fn = "add_or_update" ->
            /\ ~is_transient(args.kind, args.model)
            /\ args.model.id \in DOMAIN db[args.kind]
            /\ ParentsExist(db, args.kind, RowOf(args.kind, args.model.id, args.model))
      [] fn = "add_or_update_booking_service" ->
            /\ ~is_transient("BookingService", args.model)
            /\ Attached(db, args.model.booking_id, args.model.service_id) # {}
      [] OTHER -> FALSE

\* C5: an add_or_update_* call with a non-transient model whose primary key
\* exists succeeds, sets that row's other fields to the model's values, leaves
\* every other row as it was and leaves the number of rows unchanged.
C5_UpsertUpdatesExactlyThatRow ==
    [][ /\ call' # call
        /\ UpsertOfExisting(call'.fn, call'.args)
        => /\ ret'.raised = None
           /\ ret'.value = TRUE
           /\ \A table \in Kinds \cup {"BookingService"} :
                 DOMAIN db'[table] = DOMAIN db[table]
           /\ call'.fn = "add_or_update" =>
                 LET kind == call'.args.kind
                     m == call'.args.model
                 IN /\ db'[kind][m.id] = RowOf(kind, m.id, m)
                    /\ \A r \in DOMAIN db[kind] \ {m.id} : db'[kind][r] = db[kind][r]
                    /\ \A other \in (Kinds \cup {"BookingService"}) \ {kind} :
                          db'[other] = db[other]
           /\ call'.fn = "add_or_update_booking_service" =>
                 LET m == call'.args.model
                     rows == Attached(db, m.booking_id, m.service_id)
                 IN /\ \A r \in rows : db'.BookingService[r].completed = m.completed
                    /\ \A r \in DOMAIN db.BookingService \ rows :
                          db'.BookingService[r] = db.BookingService[r]
                    /\ \A other \in Kinds : db'[other] = db[other] ]_vars

RECURSIVE Flatten(_)
\* The concatenation of a sequence of sequences.
Flatten(seqs) == IF seqs = <<>> THEN <<>> ELSE Head(seqs) \o Flatten(Tail(seqs))

\* The page sizes of the pagination property for a listing of total rows.
PageSizes(total) == {1, 10} \cup (IF total > 0 THEN {total} ELSE {})

\* ceil(rows / page_size)
Ceil(rows, page_size) ==
    CHOOSE pages \in 0..rows :
        pages * page_size >= rows /\ (pages = 0 \/ (pages - 1) * page_size < rows)

\* A listing of the query revision, given by the result of its count function
\* and its page function, yields the rows with the ids given exactly once when
\* its pages of size n are concatenated over the page count that the count gives.
Listed(count, page(_, _), n, ids) ==
    /\ count.raised = None
    /\ count.error = None
    /\ count.value = <<Cardinality(ids)>>
    /\ LET pages == Ceil(count.value[1], n)
           all == Flatten([k \in 1..pages |-> page((k - 1) * n, n).value])
       IN /\ \A k \in 1..pages :
                page((k - 1) * n, n).raised = None /\ page((k - 1) * n, n).error = None
          /\ Len(all) = Cardinality(ids)
          /\ {all[i].id : i \in 1..Len(all)} = ids

\* The same for get_all_* and get_num_*_pages of the class revision.
DatabaseListed(kind, n) ==
    LET pages == Database_get_num_pages(db, kind, n).value
        all == Flatten([k \in 1..pages |-> Database_get_all(db, kind, k, n).value])
    IN /\ pages = Ceil(Cardinality(DOMAIN db[kind]), n)
       /\ Len(all) = Cardinality(DOMAIN db[kind])
       /\ {all[i].id : i \in 1..Len(all)} = DOMAIN db[kind]

\* The ids of the rows of a table of the query revision that belong to a booking.
OfBooking(table, booking_id) ==
    {table[r].id : r \in {x \in DOMAIN table : table[x].booking_id = booking_id}}

\* C6: in every database state, for every paginated listing and the page
\* sizes 1, 10 and the number of rows, the pages 1..page count concatenated
\* hold every row of the listing exactly once, the page count being
\* ceil(rows / page size) of the count that the matching count function returns.
C6_PagesCoverTheTable ==
    /\ store # Closed =>
        /\ \A n \in PageSizes(Cardinality(DOMAIN store.Person)) :
              Listed(get_person_count(store),
                     LAMBDA offset, limit : get_person_page(store, offset, limit),
                     n, DOMAIN store.Person)
        /\ \A n \in PageSizes(Cardinality(DOMAIN store.Property)) :
              Listed(get_property_count(store),
                     LAMBDA offset, limit : get_property_page(store, offset, limit),
                     n, DOMAIN store.Property)
        /\ \A n \in PageSizes(Cardinality(DOMAIN store.Booking)) :
              Listed(get_booking_count(store),
                     LAMBDA offset, limit : get_booking_page(store, offset, limit),
                     n, DOMAIN store.Booking)
        /\ \A n \in PageSizes(Cardinality(DOMAIN store.Service)) :
              Listed(get_service_count(store),
                     LAMBDA offset, limit : get_service_page(store, offset, limit),
                     n, {store.Service[r].id : r \in DOMAIN store.Service})
        /\ \A b \in DOMAIN store.Booking :
            /\ \A n \in PageSizes(Cardinality(OfBooking(store.BookingService, b))) :
                  Listed(get_service_count_by_booking(store, b),
                         LAMBDA offset, limit :
                             get_service_page_by_booking(store, b, offset, limit),
                         n, OfBooking(store.BookingService, b))
            /\ \A n \in PageSizes(Cardinality(OfBooking(store.Payment, b))) :
                  Listed(get_payment_count(store, b),
                         LAMBDA offset, limit : get_payment_page(store, b, offset, limit),
                         n, OfBooking(store.Payment, b))
    /\ db # Closed =>
        \A kind \in Kinds : \A n \in PageSizes(Cardinality(DOMAIN db[kind])) :
            DatabaseListed(kind, n)

\* The methods of Database that write, and those that only read.
MutatingMethods ==
    {"add", "add_or_update", "remove_by_id", "remove", "add_booking_service",
     "add_or_update_booking_service", "remove_booking_service_by_booking_service_id"}

ReadingMethods ==
    {"get_by_id", "get_all", "get_num_pages",
     "get_booking_service_by_booking_id_and_service_id",
     "booking_get_paid_total_cost", "booking_has_pending_payments"}

\* The change signals of a mutating method, in the order it emits them.
SignalsOf(fn, args) ==
    CASE fn \in {"add_booking_service", "add_or_update_booking_service"} ->
            <<"booking_services_changed", "bookings_changed">>
      [] fn = "remove_booking_service_by_booking_service_id" ->
            <<"booking_services_changed">>
      [] OTHER -> <<SignalOf(args.kind)>>

\* The tables of a Database object, without last_error.
TablesOf(d) == [d EXCEPT !.last_error = ""]

RECURSIVE SumOf(_, _)
\* The sum of the numbers that f gives to the elements of the finite set S.
SumOf(f, S) ==
    IF S = {} THEN 0
    ELSE LET x == CHOOSE y \in S : TRUE IN f[x] + SumOf(f, S \ {x})

\* The rowids of the rows of a table that belong to a booking.
RowsOf(table, booking_id) == {r \in DOMAIN table : table[r].booking_id = booking_id}

\* Query revision: the price of the service that a BookingService row attaches,
\* the one its foreign key refers to.
AttachedPrice(row) ==
    LET service == CHOOSE r \in DOMAIN store.Service :
                       ServiceIdRefers(row.service_id, store.Service[r].id)
    IN store.Service[service].price

\* The sum of the prices of the services attached to a booking, one term per
\* attaching row.
CostOf(booking_id) ==
    IF store # Closed
    THEN SumOf([r \in DOMAIN store.BookingService |-> AttachedPrice(store.BookingService[r])],
               RowsOf(store.BookingService, booking_id))
    ELSE SumOf([r \in DOMAIN db.BookingService |->
                   db.Service[db.BookingService[r].service_id].base_price],
               RowsOf(db.BookingService, booking_id))

\* C8: in every database state and for every booking, the booking cost
\* (query.get_booking_cost; the second number of
\* Database.booking_get_paid_total_cost) is the sum of the prices of the
\* services attached to it, one term per attaching row, 0 when it has none; so
\* rows of other bookings do not enter it.
C8_CostIsSumOfAttachedPrices ==
    /\ store # Closed =>
          \A b \in DOMAIN store.Booking :
              LET cost == get_booking_cost(store, b)
              IN /\ cost.raised = None
                 /\ cost.error = None
                 /\ cost.value = <<[total |-> CostOf(b)]>>
    /\ db # Closed =>
          \A b \in DOMAIN db.Booking :
              Database_booking_get_paid_total_cost(db, b).value[2] = CostOf(b)

\* The sum of the amounts of the Payment rows of a booking.
PaidOf(booking_id) ==
    IF store # Closed
    THEN SumOf([r \in DOMAIN store.Payment |-> store.Payment[r].amount],
               RowsOf(store.Payment, booking_id))
    ELSE SumOf([r \in DOMAIN db.Payment |-> db.Payment[r].amount],
               RowsOf(db.Payment, booking_id))

\* C9: in every database state and for every booking, total paid
\* (query.get_payment_totals_by_booking; the first number of
\* Database.booking_get_paid_total_cost) is the sum of the amounts of its
\* Payment rows, and Database.booking_has_pending_payments is true exactly
\* when total paid is strictly less than the booking cost.
C9_PaidIsSumAndPendingIffLess ==
    /\ store # Closed =>
          \A b \in DOMAIN store.Booking :
              LET totals == get_payment_totals_by_booking(store, b)
              IN /\ totals.raised = None
                 /\ totals.error = None
                 /\ totals.value =
                        <<[total_amount |-> PaidOf(b),
                           total_count |-> Cardinality(RowsOf(store.Payment, b))]>>
    /\ db # Closed =>
          \A b \in DOMAIN db.Booking :
              /\ Database_booking_get_paid_total_cost(db, b).value = <<PaidOf(b), CostOf(b)>>
              /\ Database_booking_has_pending_payments(db, b).value = (PaidOf(b) < CostOf(b))

\* C9, reached: booking 1 costs 80 and had payments of 20 and 25, total paid 45
\* and the check true; create_payment of 35 was called and the check is false.
C9_PaidIsSumAndPendingIffLess_Witness ==
    /\ call.fn = "add"
    /\ call.args.kind = "Payment"
    /\ call.args.model.amount = 35
    /\ ret.raised = None
    /\ ret.value = TRUE
    /\ LET before == [db EXCEPT !.Payment = [r \in DOMAIN @ \ {model.id} |-> @[r]]]
       IN /\ {before.Payment[r].amount : r \in DOMAIN before.Payment} = {20, 25}
          /\ Database_booking_get_paid_total_cost(before, 1).value = <<45, 80>>
          /\ Database_booking_has_pending_payments(before, 1).value = TRUE
    /\ Database_booking_get_paid_total_cost(db, 1).value = <<80, 80>>
    /\ Database_booking_has_pending_payments(db, 1).value = FALSE

\* What the caller of a query function sees of its result.
Seen(result) ==
    [raised |-> result.raised, error |-> result.error, value |-> result.value,
     lastrowid |-> result.lastrowid]

\* C10: in every database state, for every offset and limit (and booking),
\* each of search_persons, search_properties, search_bookings, search_services,
\* search_services_by_booking and search_payments called with the empty query
\* returns what the matching page function returns at that offset and limit.
C10_EmptySearchIsThePage ==
    store # Closed =>
        \A offset \in Offsets, limit \in Limits :
            /\ Seen(search_persons(store, <<>>, offset, limit))
                   = Seen(get_person_page(store, offset, limit))
            /\ Seen(search_properties(store, <<>>, offset, limit))
                   = Seen(get_property_page(store, offset, limit))
            /\ Seen(search_bookings(store, <<>>, offset, limit))
                   = Seen(get_booking_page(store, offset, limit))
            /\ Seen(search_services(store, <<>>, offset, limit))
                   = Seen(get_service_page(store, offset, limit))
            /\ \A b \in Ids :
                /\ Seen(search_services_by_booking(store, b, <<>>, offset, limit))
                       = Seen(get_service_page_by_booking(store, b, offset, limit))
                /\ Seen(search_payments(store, b, <<>>, offset, limit))
                       = Seen(get_payment_page(store, b, offset, limit))

\* C10, reached: search_payments was called with the empty query for a booking
\* that has a payment and returned the payments that get_payment_page returns.
C10_EmptySearchIsThePage_Witness ==
    /\ call.fn = "search_payments"
    /\ call.args.query = <<>>
    /\ ret.error = None
    /\ ret.value # <<>>
    /\ ret = Seen(get_payment_page(store, call.args.booking_id, call.args.offset,
                                   call.args.limit))

\* C11: in every state reached from the seeded database by the handlers of
\* PersonManagement (add a person, delete a person, change a person's rank),
\* the Person row with id 1 exists and is an employee.
C11_AdminStays ==
    store # Closed =>
        /\ 1 \in DOMAIN store.Person
        /\ store.Person[1].is_employee = 1

\* C11, reached: the handlers were asked to delete the admin and to change
\* the admin's rank after another person was added, and the admin is still
\* there as an employee.
C11_AdminStays_Witness ==
    /\ call.fn \in {"PersonManagement.delete_person", "PersonManagement.rank_person"}
    /\ call.args.id = 1
    /\ Cardinality(DOMAIN store.Person) > 1
    /\ 1 \in DOMAIN store.Person
    /\ store.Person[1].is_employee = 1

\* The tables of the class revision, without the fields of the Database object.
TablesOfDatabase(d) == [k \in Kinds \cup {"BookingService"} |-> d[k]]

\* Whether a call of the query revision failed and changed nothing.
FailedUnchanged(r, s) == r.raised = None /\ r.error # None /\ r.value = <<>> /\ r.store = s

\* C12: in every reachable state every Booking row refers to an existing
\* Person (Customer in the class revision) and an existing Property; creating
\* a booking whose person or property is missing fails, and deleting a person
\* or a property that a booking references fails, each leaving the tables as
\* they were.
C12_BookingsReferToTheirParents ==
    /\ store # Closed =>
        /\ \A b \in DOMAIN store.Booking :
              /\ store.Booking[b].person_id \in DOMAIN store.Person
              /\ store.Booking[b].property_id \in DOMAIN store.Property
        /\ \A property_id \in Ids, person_id \in Ids :
              (person_id \notin DOMAIN store.Person
                  \/ property_id \notin DOMAIN store.Property)
              => FailedUnchanged(create_booking(store, property_id, person_id, Date(1)),
                                 store)
        /\ \A b \in DOMAIN store.Booking :
              /\ FailedUnchanged(delete_person(store, store.Booking[b].person_id), store)
              /\ FailedUnchanged(delete_property(store, store.Booking[b].property_id),
                                 store)
    /\ db # Closed =>
        /\ \A b \in DOMAIN db.Booking :
              /\ db.Booking[b].customer_id \in DOMAIN db.Customer
              /\ db.Booking[b].property_id \in DOMAIN db.Property
        /\ \A m \in Models("Booking") :
              (m.customer_id \notin DOMAIN db.Customer
                  \/ m.property_id \notin DOMAIN db.Property)
              => LET r == Database_add(db, "Booking", m)
                 IN /\ r.raised = None
                    /\ r.value = FALSE
                    /\ TablesOfDatabase(r.db) = TablesOfDatabase(db)
        /\ \A b \in DOMAIN db.Booking :
              /\ LET r == Database_remove_by_id(db, "Customer",
                                                <<db.Booking[b].customer_id>>)
                 IN r.raised # None /\ TablesOfDatabase(r.db) = TablesOfDatabase(db)
              /\ LET r == Database_remove_by_id(db, "Property",
                                                <<db.Booking[b].property_id>>)
                 IN r.raised # None /\ TablesOfDatabase(r.db) = TablesOfDatabase(db)

\* C12, reached: delete_person was called for a person whom a booking
\* references; it returned an error and the person and the booking are there.
C12_BookingsReferToTheirParents_Witness ==
    /\ call.fn = "delete_person"
    /\ ret.error # None
    /\ call.args.id \in DOMAIN store.Person
    /\ \E b \in DOMAIN store.Booking : store.Booking[b].person_id = call.args.id

\* C13: in every reachable state no two Person rows share a username and no
\* two share an email; create_person with a username or an email that a row
\* already has returns an error, adds no row and leaves the rows as they were.
C13_UsernameAndEmailAreUnique ==
    store # Closed =>
        /\ \A a, b \in DOMAIN store.Person :
              (store.Person[a].username = store.Person[b].username
                  \/ store.Person[a].email = store.Person[b].email) => a = b
        /\ \A p \in PersonForms \cup PersonInputs :
              (\E r \in DOMAIN store.Person :
                    store.Person[r].username = p.username \/ store.Person[r].email = p.email)
              => FailedUnchanged(
                     create_person(store, p.username, p.first_name, p.last_name, p.email,
                                   p.phone_number, p.hashed_password), store)

\* C13, reached: create_person was called with a new username and the email
\* of an existing row, and returned an error.
C13_UsernameAndEmailAreUnique_Witness ==
    /\ call.fn = "create_person"
    /\ ret.error # None
    /\ ret.value = <<>>
    /\ \E r \in DOMAIN store.Person : store.Person[r].email = call.args.email
    /\ \A r \in DOMAIN store.Person : store.Person[r].username # call.args.username

\* What the caller sees when the mapping of a row failed validation: no
\* exception, an error text, no record and no last-inserted id.
ValidationFailure(r) ==
    /\ r.raised = None
    /\ r.error # None /\ r.error # ""
    /\ r.value = <<>>
    /\ r.lastrowid = <<>>

\* C14: whenever a row that a query function selects does not validate as
\* its record (a Person whose email is no address, a BookingService whose
\* service_id is stored as an integer), the function does not raise: it
\* returns an error text, the empty list (also when other rows of the same
\* result validate) and no last-inserted id.
C14_ValidationFailureIsAnError ==
    store # Closed =>
        /\ \A id \in DOMAIN store.Person :
              ~IsEmail(store.Person[id].email)
              => ValidationFailure(get_person_by_id(store, id))
        /\ \A offset \in Offsets, limit \in Limits :
              LET rows == LimitOffset(Scan(store.Person), limit, offset)
              IN (\E i \in DOMAIN rows : ~IsEmail(rows[i].email))
                 => ValidationFailure(get_person_page(store, offset, limit))
        /\ \A b \in Ids, offset \in Offsets, limit \in Limits :
              LET rows == LimitOffset(
                      SelectSeq(Scan(store.BookingService),
                                LAMBDA row : row.booking_id = b /\ row.completed = 0),
                      limit, offset)
              IN (\E i \in DOMAIN rows : rows[i].service_id.cls # "text")
                 => ValidationFailure(get_service_page_by_booking(store, b, offset, limit))

\* C14, reached: get_person_page selected the admin, who validates, and a
\* person whose email does not, and returned an error and no record.
C14_ValidationFailureIsAnError_Witness ==
    /\ call.fn = "get_person_page"
    /\ call.args = [offset |-> 0, limit |-> 10]
    /\ \E id \in DOMAIN store.Person : ~IsEmail(store.Person[id].email)
    /\ IsEmail(store.Person[1].email)
    /\ ret.raised = None
    /\ ret.error # None
    /\ ret.value = <<>>
    /\ ret.lastrowid = <<>>

\* C18: in every state reached by roster additions, roster removals and rank
\* changes, each Roster row refers to an existing Person who is an employee,
\* and a roster added for a missing person or for a customer creates no row.
C18_RosteredPersonsAreEmployees ==
    store # Closed =>
        /\ \A r \in DOMAIN store.Roster :
              /\ store.Roster[r].person_id \in DOMAIN store.Person
              /\ store.Person[store.Roster[r].person_id].is_employee = 1
        /\ \A person_id \in Ids, booking_service_id \in Ids :
              (person_id \notin DOMAIN store.Person
                  \/ store.Person[person_id].is_employee # 1)
              => RosterView_handle_add_person_done(
                     store, [id |-> -1, person_id |-> person_id,
                             booking_service_id |-> booking_service_id]).store = store

\* C15: a reset from any database state, also one whose rows reference each
\* other, drops every table and creates it again: it does not fail, and
\* afterwards all seven tables exist (six in the class revision) and none
\* holds a row, so none that was created before the reset.
C15_ResetEmptiesEveryTable ==
    /\ store # Closed =>
          LET after == Reset(store)
          IN /\ after.error = None
             /\ \A t \in Tables : t \in DOMAIN after.store /\ after.store[t] = <<>>
    /\ db # Closed =>
          LET after == Database_reset(db)
          IN /\ after.raised = None
             /\ \A k \in Kinds \cup {"BookingService"} : after.db[k] = <<>>

\* C15, reached: reset ran on a database that held a roster (whose row
\* references a person and a booking service, which references a booking),
\* and every table is there and empty.
C15_ResetEmptiesEveryTable_Witness ==
    /\ call.fn = "reset"
    /\ store # Closed
    /\ call.args.rosters > 0
    /\ ret.error = None
    /\ \A t \in Tables : t \in DOMAIN store /\ store[t] = <<>>

\* Whether no two rows of the database collide on a key: the user names and
\* emails of persons, the ids of services.
NoDuplicates(s) ==
    /\ \A a, b \in DOMAIN s.Person :
          (s.Person[a].username = s.Person[b].username
              \/ s.Person[a].email = s.Person[b].email) => a = b
    /\ \A a, b \in DOMAIN s.Service : s.Service[a].id = s.Service[b].id => a = b

\* C16: CREATE_TABLES, CREATE_ADMIN_USER and ADD_DEFAULT_SERVICES run on an
\* initialised database in any state that later operations reach: every row
\* that was there is there unchanged, a row that was added is the admin or a
\* default service that was missing, no two rows collide on a key, and running
\* the three a second time changes nothing.
C16_StartupIsIdempotent ==
    (store # Closed /\ \A t \in Tables : t \in DOMAIN store) =>
        LET once == Startup(store)
        IN /\ \A t \in Tables : \A r \in DOMAIN store[t] :
                 r \in DOMAIN once[t] /\ once[t][r] = store[t][r]
           /\ \A t \in Tables \ {"Person", "Service"} : DOMAIN once[t] = DOMAIN store[t]
           /\ \A r \in DOMAIN once.Person \ DOMAIN store.Person : once.Person[r] = AdminUser
           /\ \A r \in DOMAIN once.Service \ DOMAIN store.Service :
                 \E i \in DOMAIN DefaultServices : once.Service[r] = DefaultServices[i]
           /\ NoDuplicates(store) => NoDuplicates(once)
           /\ Startup(once) = once

\* C16, reached: the startup scripts ran on a database that holds a booking
\* and the seeded rows, and left every row as it was.
C16_StartupIsIdempotent_Witness ==
    /\ call.fn = "startup"
    /\ store # Closed
    /\ DOMAIN store.Booking # {}
    /\ 1 \in DOMAIN store.Person
    /\ call.args.rows = RowCount(store)
    /\ Startup(store) = store

\* C17: for every booking the completion query returns one record whose
\* total is the number of the booking's BookingService rows and whose
\* completed is the number of those with completed set, so that
\* 0 <= completed <= total; the status shown is Done exactly when none of the
\* booking's services is incomplete, and Database.is_booking_completed is True
\* exactly then.
C17_CompletionCountsServices ==
    /\ store # Closed =>
        \A b \in DOMAIN store.Booking :
            LET rows == {r \in DOMAIN store.BookingService :
                            store.BookingService[r].booking_id = b}
                set == {r \in rows : store.BookingService[r].completed # 0}
                result == get_completed_service_count_by_booking(store, b)
                shown == right_panel_update(store, b)
            IN /\ result.raised = None /\ result.error = None
               /\ Len(result.value) = 1
               /\ result.value[1].total = Cardinality(rows)
               /\ result.value[1].completed = Cardinality(set)
               /\ 0 <= result.value[1].completed
               /\ result.value[1].completed <= result.value[1].total
               /\ (shown.value[1].status = "Done") <=> (set = rows)
               /\ shown.value[1].status \in {"Done", "In Progress"}
    /\ db # Closed =>
        \A b \in DOMAIN db.Booking :
            Database_is_booking_completed(db, b).value
                <=> ~\E r \in DOMAIN db.BookingService :
                        /\ db.BookingService[r].booking_id = b
                        /\ db.BookingService[r].completed = FALSE

\* C17, reached: the status of a booking with two services, one of them
\* completed, was shown as In Progress with 1 of 2.
C17_CompletionCountsServices_Witness ==
    /\ call.fn = "right_panel_update"
    /\ ret.value = <<[status |-> "In Progress", completed |-> 1, total |-> 2]>>
    /\ \E r \in DOMAIN store.BookingService :
          /\ store.BookingService[r].booking_id = call.args.booking_id
          /\ store.BookingService[r].completed = 1

\* C19: after Database.add_booking_service returned True, reading by the
\* model's booking_id and service_id yields a record equal to the model that
\* was passed in: the model's two ids still identify the inserted row.
C19_BookingServiceReadsBack ==
    ( /\ call.fn = "add_booking_service"
      /\ ret.raised = None
      /\ ret.value = TRUE )
    => /\ model.booking_id = call.args.model.booking_id
       /\ model.service_id = call.args.model.service_id
       /\ Database_get_booking_service_by_booking_id_and_service_id(
              db, model.booking_id, model.service_id).value = <<call.args.model>>

\* C20: Database.add_customer, add_property, add_service and create_payment
\* called with a model whose id is not -1 return False, insert nothing, leave
\* the model and every table as they were and emit no signal; called with a
\* transient model whose insert succeeds they return True and set model.id
\* to the id of the new row, which is not -1 and is the id of no row that
\* existed before.
C20_AddTakesTransientModelsOnly ==
    [][ ( /\ call'.fn = "add"
          /\ call'.args.kind \in {"Customer", "Property", "Service", "Payment"} )
        => LET kind == call'.args.kind
               m == call'.args.model
           IN /\ ret'.raised = None
              /\ m.id # -1 =>
                    /\ ret'.value = FALSE
                    /\ model' = m
                    /\ TablesOfDatabase(db') = TablesOfDatabase(db)
                    /\ emitted' = <<>>
              /\ (m.id = -1 /\ ParentsExist(db, kind, RowOf(kind, -1, m))) =>
                    /\ ret'.value = TRUE
                    /\ model'.id # -1
                    /\ model'.id \notin DOMAIN db[kind]
                    /\ DOMAIN db'[kind] = DOMAIN db[kind] \cup {model'.id}
                    /\ db'[kind][model'.id] = RowOf(kind, model'.id, m)
                    /\ model' = [m EXCEPT !.id = model'.id]
      ]_vars

\* C20, reached: create_payment was called with a transient model on a
\* database that holds payment 1, returned True and set the model's id to
\* the id of the new row.
C20_AddTakesTransientModelsOnly_Witness ==
    /\ call.fn = "add"
    /\ call.args.kind = "Payment"
    /\ call.args.model.id = -1
    /\ ret.value = TRUE
    /\ model.id > 1
    /\ {1, model.id} \subseteq DOMAIN db.Payment

\* C21: Database.remove_customer, remove_property, remove_booking,
\* remove_service and remove_payment called with a transient model return
\* False and change nothing; called with a persisted model whose row exists
\* they delete exactly that row, return True and set the model's id to -1;
\* otherwise they return False and leave the model's id unchanged.
C21_RemoveOfModel ==
    [][ call'.fn = "remove"
        => LET kind == call'.args.kind
               m == call'.args.model
           IN /\ ret'.raised = None
              /\ IF is_transient(kind, m)
                 THEN /\ ret'.value = FALSE
                      /\ model' = m
                      /\ db' = db
                 ELSE IF m.id \in DOMAIN db[kind]
                 THEN /\ ret'.value = TRUE
                      /\ model' = [m EXCEPT !.id = -1]
                      /\ db' = [db EXCEPT ![kind] = [r \in DOMAIN @ \ {m.id} |-> @[r]]]
                 ELSE /\ ret'.value = FALSE
                      /\ model'.id = m.id
      ]_vars

\* C22: what is visible is a function of the logged-in user. The central
\* widget is visible and the login frame hidden exactly when
\* logged_in_as_user is not None; when somebody is logged in, the six
\* employee tabs are visible exactly when the user is an employee and the
\* client-bookings tab exactly when the user is not, so the two groups are
\* never visible together; after handle_logout logged_in_as_user is None.
C22_VisibilityFollowsTheUser ==
    /\ ui.centralWidget = (logged_in_as_user # <<>>)
    /\ ui.login_frame = (logged_in_as_user = <<>>)
    /\ logged_in_as_user # <<>> =>
          /\ \A t \in EmployeeTabs : ui.tab_widget[t] = logged_in_as_user[1].is_employee
          /\ \A t \in ClientTabs : ui.tab_widget[t] = ~logged_in_as_user[1].is_employee
          /\ ~\E e \in EmployeeTabs, c \in ClientTabs : ui.tab_widget[e] /\ ui.tab_widget[c]
    /\ call.fn = "handle_logout" => logged_in_as_user = <<>>

\* C22, reached: a customer has logged in; the central widget and the
\* client-bookings tab are visible and the six employee tabs are hidden.
C22_VisibilityFollowsTheUser_Witness ==
    /\ call.fn = "handle_login"
    /\ logged_in_as_user # <<>>
    /\ ~logged_in_as_user[1].is_employee
    /\ ui.centralWidget
    /\ ui.tab_widget[6]
    /\ \A t \in EmployeeTabs : ~ui.tab_widget[t]

\* C23: in every state of the people table, current_page >= 0 and, whenever
\* the table holds a row, the current page holds at least one
\* (current_page * 10 < row count); refresh and a change of the search text
\* leave current_page at 0.
C23_CurrentPageHoldsARow ==
    store # Closed =>
        /\ ui.people_table.current_page >= 0
        /\ DOMAIN store.Person # {} =>
              ui.people_table.current_page * PageSize < Cardinality(DOMAIN store.Person)
        /\ call.fn \in {"TableView.refresh", "TableView.on_search_text_changed"} =>
              ui.people_table.current_page = 0

\* C24: after BookingServiceManagement.delete_booking on a selected booking,
\* the booking row and all of its BookingService rows are gone, also when the
\* booking has payments or its services have rostered staff; no
\* BookingService, Payment or Roster row refers to a missing booking or
\* booking service, and the selection is cleared.
C24_DeleteBookingRemovesItsRows ==
    ( /\ call.fn = "BookingServiceManagement.delete_booking"
      /\ call.args.booking_id # <<>> )
    => LET booking_id == call.args.booking_id[1]
       IN /\ booking_id \notin DOMAIN store.Booking
          /\ \A b \in DOMAIN store.BookingService :
                /\ store.BookingService[b].booking_id # booking_id
                /\ store.BookingService[b].booking_id \in DOMAIN store.Booking
          /\ \A p \in DOMAIN store.Payment :
                store.Payment[p].booking_id \in DOMAIN store.Booking
          /\ \A r \in DOMAIN store.Roster :
                store.Roster[r].booking_service_id \in DOMAIN store.BookingService
          /\ ui.booking_id = <<>>

\* C25: in every state reached through the payment dialogs of the client
\* view, the total paid for a booking is at most the cost of the booking,
\* and the Add Payment button of a booking is disabled whenever its
\* remaining amount is <= 0.
C25_PaidNeverExceedsCost ==
    store # Closed =>
        /\ \A b \in DOMAIN store.Booking : PaidOf(b) <= CostOf(b)
        /\ \A b \in DOMAIN ui.details :
              ui.details[b].remaining_payment <= 0 => ~ui.details[b].enabled

\* C26: in every state reached through the add-service dialog of a booking,
\* no booking has the same service attached twice and every attached service
\* has a positive duration: a BookingService row is created only if no row
\* with the same booking_id and service_id exists at submission, booking_id
\* >= 0, service_id is not empty and duration > 0.
C26_NoServiceAttachedTwice ==
    store # Closed =>
        /\ \A a, b \in DOMAIN store.BookingService :
              ( /\ store.BookingService[a].booking_id = store.BookingService[b].booking_id
                /\ store.BookingService[a].service_id = store.BookingService[b].service_id )
              => a = b
        /\ \A a \in DOMAIN store.BookingService : store.BookingService[a].duration > 0

\* C27: through the dialog of ServiceManagement a Service is created only if
\* no Service has its id and its price is > 0; a submission with an existing
\* id or a price <= 0 creates no row and changes no row. After every step
\* the ids of the services are unique and every price, seeded or added, is
\* positive.
C27_ServicesAreUniqueAndPriced ==
    [][ /\ \A a, b \in DOMAIN store'.Service :
              store'.Service[a].id = store'.Service[b].id => a = b
        /\ \A a \in DOMAIN store'.Service : store'.Service[a].price > 0
        /\ call'.fn = "ServiceManagement.handle_add_new_service"
           => LET service == call'.args
                  exists == \E a \in DOMAIN store.Service : store.Service[a].id = service.id
              IN /\ (exists \/ service.price <= 0) => store' = store
                 /\ store' # store =>
                       /\ ~exists /\ service.price > 0
                       /\ \E a \in DOMAIN store'.Service \ DOMAIN store.Service :
                             /\ store'.Service[a] = service
                             /\ store' = [store EXCEPT !.Service = WithRow(@, a, service)]
      ]_vars

\* C27, reached: an accepted dialog with a new id and a positive price
\* created the service, on a catalog from which a service had been deleted.
C27_ServicesAreUniqueAndPriced_Witness ==
    /\ call.fn = "ServiceManagement.handle_add_new_service"
    /\ call.args.price > 0
    /\ writes = 2
    /\ \E a \in DOMAIN store.Service : store.Service[a] = call.args
    /\ \E i \in DOMAIN DefaultServices :
          \A a \in DOMAIN store.Service : store.Service[a].id # DefaultServices[i].id

\* C28: the selected booking of BookingServiceManagement is never stale:
\* after every handler and every change notification, booking_id is None or
\* the id of a booking that exists in the database, and a booking created
\* through the add dialog is the selection when the handler returns.
C28_SelectionIsNeverStale ==
    store # Closed =>
        /\ ui.booking_id # <<>> => ui.booking_id[1] \in DOMAIN store.Booking
        /\ ( /\ call.fn = "BookingServiceManagement.handle_add_new_booking_done"
             /\ ret.lastrowid # <<>> )
           => /\ ui.booking_id = ret.lastrowid
              /\ store.Booking[ui.booking_id[1]].person_id = call.args.person_id
              /\ store.Booking[ui.booking_id[1]].property_id = call.args.property_id
              /\ store.Booking[ui.booking_id[1]].booking_date
                    = isoformat(call.args.booking_date)

\* C28, reached: a booking was created through the add dialog and became
\* the selection, after the booking selected before had been deleted.
C28_SelectionIsNeverStale_Witness ==
    /\ call.fn = "BookingServiceManagement.handle_add_new_booking_done"
    /\ ret.lastrowid # <<>>
    /\ ui.booking_id = ret.lastrowid
    /\ ui.booking_id[1] \in DOMAIN store.Booking
    /\ \E b \in 1..(ui.booking_id[1] - 1) : b \notin DOMAIN store.Booking

====
